---- MODULE Spec2Model ----
(***************************************************************************)
(* Statement_Prep: the general-ledger pipeline (part 1: setup workbook,    *)
(* ledger ingestion, enrichment, aggregation into gl_agg) and the part-2   *)
(* readers of gl_agg (the query layer, the ownership loader and the        *)
(* ownership scaling).                                                     *)
(*                                                                         *)
(* Money is an integer number of cents.  A percentage is an integer number *)
(* of 0.005 percentage points (100% = 20000, the 0.01 tolerance = 2).      *)
(* A month_start 'YYYY-MM-01' is the pair <<YYYY, MM>>, SQL NULL of a TEXT  *)
(* column is NULL, and a NULL month or date is the empty tuple.            *)
(* SQL tables are bags of rows: no statement of the program orders them.   *)
(***************************************************************************)
EXTENDS Integers, Sequences, FiniteSets, Bags, TLC

VARIABLES
    argv,       \* the --parts text given to orchestrator.py, NULL if it is not the entry
    parts,      \* orchestrator.py: the identifiers its loop has still to go through
    stages,     \* the stages of part 1 entered so far in this run, in order
    caller,     \* who drives part 1: run_part1, or a caller passing full arguments
    before,     \* what the SQLite file held when this run started
    workbook,   \* the setup workbook (statement_prep_setup.xlsx) as it is on disk
    export,     \* the ledger export (CSV) on disk: whether it exists, and its data rows
    config,     \* part2_ppt/config.py: the force-100 switch and the scaling exceptions
    setup,      \* run_part1's SetupConfig, NULL until load_setup_config returns
    folders,    \* the investor folders created under the output location
    tables,     \* the tables that exist in the SQLite file
    gl_raw,     \* the rows of gl_raw
    gl_agg,     \* the committed rows of gl_agg
    pc,         \* where run_part1 stands
    err,        \* the exception that ended the last operation, NoError if none
    out         \* what the last part-2 call returned

vars == <<argv, parts, stages, caller, before, workbook, export, config, setup,
          folders, tables, gl_raw, gl_agg, pc, err, out>>

NULL == "<null>"
NoMonth == <<>>
NoError == [type |-> "none"]
NoOut == [fn |-> "none"]

----------------------------------------------------------------------------
(* Generic helpers.                                                        *)

RECURSIVE SumOver(_, _)
\* The sum of f[x] over the finite set S.
SumOver(S, f) ==
    IF S = {} THEN 0
    ELSE LET x == CHOOSE y \in S : TRUE
         IN  f[x] + SumOver(S \ {x}, f)

RECURSIVE SeqSum(_, _, _)
\* The sum of Op(s[i]) over the positions i..Len(s) of the sequence s.
SeqSum(Op(_), s, i) ==
    IF i > Len(s) THEN 0 ELSE Op(s[i]) + SeqSum(Op, s, i + 1)

\* The sum of Val(r) over the rows of a bag, each counted with its copies.
BagSum(Val(_), B) ==
    SumOver(BagToSet(B), [r \in BagToSet(B) |-> Val(r) * CopiesIn(r, B)])

\* The rows of bag B that satisfy P, with their copies.
BagFilter(P(_), B) ==
    [r \in {x \in BagToSet(B) : P(x)} |-> B[r]]

\* The bag of F(r) for the rows r of B (copies of rows that F identifies add up).
BagMap(F(_), B) ==
    [q \in {F(r) : r \in BagToSet(B)} |->
        SumOver({r \in BagToSet(B) : F(r) = q}, [r \in BagToSet(B) |-> B[r]])]

\* The bag of the elements of a sequence.
SeqToBag(s) ==
    [x \in {s[i] : i \in 1..Len(s)} |-> Cardinality({i \in 1..Len(s) : s[i] = x})]

Abs(n) == IF n < 0 THEN 0 - n ELSE n

RECURSIVE Ascending(_)
\* The numbers of a finite set in ascending order.
Ascending(S) ==
    IF S = {} THEN <<>>
    ELSE LET m == CHOOSE x \in S : \A y \in S : x <= y
         IN  <<m>> \o Ascending(S \ {m})

\* An equality under which NULL equals everything.
SqlEq_null_matches(a, b) == a = NULL \/ b = NULL \/ a = b

\* SQL comparisons: a comparison with NULL is not true.
SqlEq(a, b) == a # NULL /\ b # NULL /\ a = b
COALESCE(a, b) == IF a = NULL THEN b ELSE a

----------------------------------------------------------------------------
(* part1_gl/gl_ingest.py                                                   *)

\* A month label of the export is <<abbreviation, year>>; strptime's %b table.
MonthNumber(abbr) ==
    CASE abbr = "Jan" -> 1 [] abbr = "Feb" -> 2 [] abbr = "Mar" -> 3
      [] abbr = "Apr" -> 4 [] abbr = "May" -> 5 [] abbr = "Jun" -> 6
      [] abbr = "Jul" -> 7 [] abbr = "Aug" -> 8 [] abbr = "Sep" -> 9
      [] abbr = "Oct" -> 10 [] abbr = "Nov" -> 11 [] abbr = "Dec" -> 12
      [] OTHER -> 0

\* "Mon YYYY" -> first day of that month; a label that does not parse gives NaT,
\* which is stored as NULL.
to_month_start_iso(label) ==
    IF MonthNumber(label[1]) = 0 THEN NoMonth
    ELSE <<label[2], MonthNumber(label[1])>>

\* A numeric cell is <<cents>>; a cell that does not parse is <<>> and becomes 0.
coerce_numeric(cell) == IF cell = <<>> THEN 0 ELSE cell[1]

\* One inserted gl_raw row for one data row of the export: the enrichment
\* columns are seeded with NULL.
RawRowOf(line) ==
    [ month_start         |-> to_month_start_iso(line.Month),
      gl_account          |-> line.GL_Account,
      property_name       |-> line.Property_Name,
      debit               |-> coerce_numeric(line.Debit),
      credit              |-> coerce_numeric(line.Credit),
      investor            |-> NULL,
      owner               |-> NULL,
      acquired            |-> <<>>,
      investor_type       |-> NULL,
      categorization      |-> NULL,
      gl_mapping_type     |-> NULL,
      cash_categorization |-> NULL,
      cash_type_mapping   |-> NULL ]

\* reset_raw_table followed by the executemany insert.
IngestRows(lines) == BagMap(RawRowOf, SeqToBag(lines))

----------------------------------------------------------------------------
(* common/excel_config.py: the part-1 loaders of the setup workbook.       *)
(* A sheet is a sequence of rows, a row a function from column names to    *)
(* cells.  A "% Ownership" cell is [kind, v]: kind "num" (a number), "str" *)
(* (text, with or without a % sign) or "blank"; v in units of 0.005.       *)

Pct100 == 20000
PctOne == 200

\* _normalize_pct of _read_run_config and _read_investor_table (the same code
\* twice): a number or a text in (0, 1] is a fraction and is multiplied by 100.
normalize_pct(cell) ==
    IF cell.v > 0 /\ cell.v <= PctOne THEN cell.v * 100 ELSE cell.v

\* The (Owner, Property Name) groups of a frame and each group's pct_ownership sum.
OwnerPropertyNameSums(rows) ==
    LET keys == {<<rows[i]["Owner"], rows[i]["Property Name"]>> : i \in 1..Len(rows)}
        In(k, r) == IF <<r["Owner"], r["Property Name"]>> = k THEN r["pct_ownership"] ELSE 0
    IN  [k \in keys |-> LET Of(r) == In(k, r) IN SeqSum(Of, rows, 1)]

\* The comparison of a group's sum with 100.0 in _read_investor_table.
investor_table_sum_bad(total) == total # Pct100

InvestorTableColumns ==
    <<"Investor", "% Ownership", "Owner", "Property Name", "Property", "Acquired",
      "Type", "pct_ownership">>

\* _read_investor_table: the frame [columns, rows], or the error it raises.
read_investor_table(sheet) ==
    LET withPct == [i \in 1..Len(sheet) |->
                      [c \in DOMAIN sheet[i] \cup {"pct_ownership"} |->
                          IF c = "pct_ownership" THEN normalize_pct(sheet[i]["% Ownership"])
                          ELSE sheet[i][c]]]
        sums == OwnerPropertyNameSums(withPct)
        bad_groups == {k \in DOMAIN sums : investor_table_sum_bad(sums[k])}
    IN  IF \E i \in 1..Len(sheet) : sheet[i]["% Ownership"].kind = "blank"
        THEN [ok |-> FALSE,
              err |-> [type |-> "ValueError", what |-> "Investor Table blank pct",
                       groups |-> {}]]
        ELSE IF \E i \in 1..Len(sheet) :
                    withPct[i]["pct_ownership"] <= 0 \/ withPct[i]["pct_ownership"] > Pct100
        THEN [ok |-> FALSE,
              err |-> [type |-> "ValueError", what |-> "Investor Table pct range",
                       groups |-> {}]]
        ELSE IF bad_groups # {}
        THEN [ok |-> FALSE,
              err |-> [type |-> "ValueError", what |-> "Investor Table pct total",
                       groups |-> bad_groups]]
        ELSE [ok |-> TRUE, df |-> [columns |-> InvestorTableColumns, rows |-> withPct]]

\* _read_run_config: (investors, frame) or the error it raises.  The investors
\* are the distinct investors of the kept rows (their sorted order is not
\* modelled); the frame keeps the order of the sheet.  printed is what the
\* function writes to the console: it has no print statement.
read_run_config(sheet) ==
    LET pct(i) == normalize_pct(sheet[i]["% Ownership"])
        named == {i \in 1..Len(sheet) : sheet[i]["Investor"] # "" /\ sheet[i]["Owner"] # ""}
        first == {i \in named : ~ \E j \in named :
                     /\ j < i
                     /\ sheet[j]["Investor"] = sheet[i]["Investor"]
                     /\ sheet[j]["Owner"] = sheet[i]["Owner"]}
        ownerSum(o) == SumOver({i \in first : sheet[i]["Owner"] = o},
                               [i \in 1..Len(sheet) |-> pct(i)])
        kept == {i \in first : ownerSum(sheet[i]["Owner"]) = Pct100}
    IN  IF \E i \in 1..Len(sheet) : sheet[i]["% Ownership"].kind = "blank"
        THEN [ok |-> FALSE,
              err |-> [type |-> "ValueError", what |-> "Run Config blank pct", groups |-> {}]]
        ELSE IF \E i \in 1..Len(sheet) : pct(i) <= 0 \/ pct(i) > Pct100
        THEN [ok |-> FALSE,
              err |-> [type |-> "ValueError", what |-> "Run Config pct range", groups |-> {}]]
        ELSE IF kept = {}
        THEN [ok |-> FALSE,
              err |-> [type |-> "ValueError", what |-> "Run Config no valid rows",
                       groups |-> {}]]
        ELSE [ok |-> TRUE,
              investors |-> {sheet[i]["Investor"] : i \in kept},
              rows |-> [k \in 1..Cardinality(kept) |->
                          LET i == Ascending(kept)[k]
                          IN  [Investor |-> sheet[i]["Investor"], Owner |-> sheet[i]["Owner"],
                               pct_ownership |-> pct(i)]],
              printed |-> <<>>]

\* _read_general_config: the statement thru date is required and kept as text
\* (<<y, m, d>> a date, <<0>> a text that is no date, <<>> a blank cell).
read_general_config(general) ==
    IF general.statement_thru_date = <<>>
    THEN [ok |-> FALSE,
          err |-> [type |-> "ValueError", what |-> "General Config missing value",
                   groups |-> {}]]
    ELSE [ok |-> TRUE, general |-> general]

GLMappingColumns ==
    <<"GL Account", "Categorization", "GL Type", "Cash Categorization", "Cash Type">>

\* _read_gl_mapping: the five required columns, in this order.
read_gl_mapping(sheet) == [columns |-> GLMappingColumns, rows |-> sheet]

\* load_setup_config: general, run config, investor table and GL mapping, in this
\* order; the first failure is the one raised.
load_setup_config_result(wb) ==
    LET g == read_general_config(wb.general)
        rc == read_run_config(wb.run_config)
        it == read_investor_table(wb.investor_table)
    IN  IF ~ g.ok THEN g
        ELSE IF ~ rc.ok THEN rc
        ELSE IF ~ it.ok THEN it
        ELSE [ok |-> TRUE,
              setup |-> [general |-> g.general,
                         investors |-> rc.investors,
                         run_config |-> rc.rows,
                         investor_table |-> it.df,
                         gl_mapping |-> read_gl_mapping(wb.gl_mapping)]]

----------------------------------------------------------------------------
(* part1_gl/gl_enrich_and_aggregate.py                                     *)

\* itertuples(index=False, name=None): the cells of row i in column order.
RowTuple(df, i) == [k \in 1..Len(df.columns) |-> df.rows[i][df.columns[k]]]

\* str(x).strip() if str(x).strip() else None
BlankToNone(s) == IF s = "" THEN NULL ELSE s

\* The number of names each row of the investor table is unpacked into.
InvestorUnpackWidth == 6
\* The number of names each row of the GL mapping is unpacked into.
MappingUnpackWidth == 5

\* inv_rows: the rows inserted into _investor_map.
inv_rows(df) ==
    [i \in 1..Len(df.rows) |->
        LET t == RowTuple(df, i)
        IN  [investor |-> t[1], property_name |-> t[3], owner |-> BlankToNone(t[4]),
             acquired |-> t[5], investor_type |-> BlankToNone(t[6])]]

\* gl_rows: the rows inserted into _gl_map.
gl_rows(df) ==
    [i \in 1..Len(df.rows) |->
        LET t == RowTuple(df, i)
        IN  [gl_account |-> t[1], categorization |-> BlankToNone(t[2]),
             gl_mapping_type |-> BlankToNone(t[3]),
             cash_categorization |-> BlankToNone(t[4]),
             cash_type_mapping |-> BlankToNone(t[5])]]

\* A lookup that falls back to the first row of the map when no row matches.
FirstMatch_or_first_row(keys, key) ==
    LET hits == {i \in 1..Len(keys) : SqlEq(keys[i], key)}
    IN  IF hits = {} THEN (IF Len(keys) > 0 THEN 1 ELSE 0)
        ELSE CHOOSE i \in hits : \A j \in hits : i <= j

\* SELECT ... FROM map WHERE map.key = row.key LIMIT 1: the position of the first
\* row of the map whose key (keys[i]) matches, 0 if no row matches.
FirstMatch(keys, key) ==
    LET hits == {i \in 1..Len(keys) : SqlEq(keys[i], key)}
    IN  IF hits = {} THEN 0 ELSE CHOOSE i \in hits : \A j \in hits : i <= j

\* The UPDATE of apply_mappings_inplace on one gl_raw row: every enrichment column
\* is overwritten with the first match, or with NULL where nothing matches.
EnrichRow(r, imap, gmap) ==
    LET i == FirstMatch([k \in 1..Len(imap) |-> imap[k].property_name], r.property_name)
        g == FirstMatch([k \in 1..Len(gmap) |-> gmap[k].gl_account], r.gl_account)
    IN  [r EXCEPT
            !.investor            = IF i = 0 THEN NULL ELSE imap[i].investor,
            !.owner               = IF i = 0 THEN NULL ELSE imap[i].owner,
            !.acquired            = IF i = 0 THEN <<>> ELSE imap[i].acquired,
            !.investor_type       = IF i = 0 THEN NULL ELSE imap[i].investor_type,
            !.categorization      = IF g = 0 THEN NULL ELSE gmap[g].categorization,
            !.gl_mapping_type     = IF g = 0 THEN NULL ELSE gmap[g].gl_mapping_type,
            !.cash_categorization = IF g = 0 THEN NULL ELSE gmap[g].cash_categorization,
            !.cash_type_mapping   = IF g = 0 THEN NULL ELSE gmap[g].cash_type_mapping]

\* The whole UPDATE statement.
EnrichRows(raw, investor_table_df, gl_mapping_df) ==
    LET imap == inv_rows(investor_table_df)
        gmap == gl_rows(gl_mapping_df)
        Upd(r) == EnrichRow(r, imap, gmap)
    IN  BagMap(Upd, raw)

\* The tuple unpacking at the head of the two loops raises ValueError when a row
\* has another number of cells than the names it is unpacked into.
UnpackFails(investor_table_df, gl_mapping_df) ==
    \/ Len(investor_table_df.rows) > 0 /\ Len(investor_table_df.columns) # InvestorUnpackWidth
    \/ Len(gl_mapping_df.rows) > 0 /\ Len(gl_mapping_df.columns) # MappingUnpackWidth

\* A date <<y, m, d>> as a number that orders dates as their ISO text orders them.
DateRank(d) == d[1] * 10000 + d[2] * 100 + d[3]

\* MIN(acquired) over a group: the least non-NULL date, NULL if there is none.
MinAcquired(rows) ==
    LET ds == {r.acquired : r \in rows} \ {<<>>}
    IN  IF ds = {} THEN <<>>
        ELSE CHOOSE d \in ds : \A e \in ds : DateRank(d) <= DateRank(e)

\* The binary collation of the cash-type labels (upper case sorts before lower case).
TextRank(s) ==
    CASE s = "Both" -> 1 [] s = "Inflow" -> 2 [] s = "Outflow" -> 3
      [] s = "both" -> 4 [] s = "inflow" -> 5 [] s = "outflow" -> 6
      [] OTHER -> 7

\* MIN(cash_type_mapping) over a group: the least non-NULL text, NULL if none.
MinText(rows) ==
    LET ts == {r.cash_type_mapping : r \in rows} \ {NULL}
    IN  IF ts = {} THEN NULL
        ELSE CHOOSE t \in ts : \A u \in ts : TextRank(t) <= TextRank(u)

\* WHERE cash_categorization = 'Mortgage'
IsMortgage(r) == SqlEq(r.cash_categorization, "Mortgage")
\* WHERE COALESCE(cash_categorization, '') <> 'Mortgage'
IsNotMortgage(r) == COALESCE(r.cash_categorization, "") # "Mortgage"

\* GROUP BY month_start, investor, owner, property_name, categorization,
\*          gl_mapping_type, cash_categorization      (first SELECT)
Key7(r) == <<r.month_start, r.investor, r.owner, r.property_name, r.categorization,
             r.gl_mapping_type, r.cash_categorization>>
\* GROUP BY month_start, investor, owner, property_name, categorization,
\*          gl_mapping_type                           (second and third SELECT)
Key6(r) == <<r.month_start, r.investor, r.owner, r.property_name, r.categorization,
             r.gl_mapping_type>>

Debit(r) == r.debit
Credit(r) == r.credit

\* An aggregate row as the INSERT leaves it: property and timeframe not yet set.
AggRow(k, acquired, value, cash_cat, cash_value, cash_type) ==
    [ month_start         |-> k[1],
      investor            |-> k[2],
      owner               |-> k[3],
      property_name       |-> k[4],
      property            |-> NULL,
      acquired            |-> acquired,
      categorization      |-> k[5],
      gl_mapping_type     |-> k[6],
      value               |-> value,
      cash_categorization |-> cash_cat,
      cash_value          |-> cash_value,
      cash_type_mapping   |-> cash_type,
      timeframe           |-> NULL ]

\* The first SELECT with value and cash_value taken as SUM(debit) alone.
NonMortgageSelect_debit_only(raw) ==
    LET rows == {r \in BagToSet(raw) : IsNotMortgage(r)}
        G(k) == LET InK(r) == IsNotMortgage(r) /\ Key7(r) = k IN BagFilter(InK, raw)
    IN  {AggRow(k, MinAcquired(BagToSet(G(k))), BagSum(Debit, G(k)), k[7],
                BagSum(Debit, G(k)), MinText(BagToSet(G(k)))) : k \in {Key7(r) : r \in rows}}

\* First SELECT: one row per group of the records that are not mortgage-tagged.
NonMortgageSelect(raw) ==
    LET rows == {r \in BagToSet(raw) : IsNotMortgage(r)}
        G(k) == LET InK(r) == IsNotMortgage(r) /\ Key7(r) = k IN BagFilter(InK, raw)
    IN  {AggRow(k, MinAcquired(BagToSet(G(k))),
                BagSum(Debit, G(k)) - BagSum(Credit, G(k)),
                k[7],
                BagSum(Debit, G(k)) - BagSum(Credit, G(k)),
                MinText(BagToSet(G(k)))) : k \in {Key7(r) : r \in rows}}

\* The second SELECT with the payment leg taken net of the credits.
MortgagePaymentSelect_net(raw) ==
    LET rows == {r \in BagToSet(raw) : IsMortgage(r)}
        G(k) == LET InK(r) == IsMortgage(r) /\ Key6(r) = k IN BagFilter(InK, raw)
    IN  {AggRow(k, MinAcquired(BagToSet(G(k))),
                BagSum(Debit, G(k)) - BagSum(Credit, G(k)), "Mortgage Payment",
                BagSum(Debit, G(k)), "Outflow")
            : k \in {Key6(r) : r \in rows}}

\* Second SELECT: the 'Mortgage Payment' outflow of each mortgage-tagged group.
MortgagePaymentSelect(raw) ==
    LET rows == {r \in BagToSet(raw) : IsMortgage(r)}
        G(k) == LET InK(r) == IsMortgage(r) /\ Key6(r) = k IN BagFilter(InK, raw)
    IN  {AggRow(k, MinAcquired(BagToSet(G(k))),
                BagSum(Debit, G(k)), "Mortgage Payment", BagSum(Debit, G(k)), "Outflow")
            : k \in {Key6(r) : r \in rows}}

\* The third SELECT without the sign inversion of the loan leg.
MortgageLoanSelect_unsigned(raw) ==
    LET rows == {r \in BagToSet(raw) : IsMortgage(r)}
        G(k) == LET InK(r) == IsMortgage(r) /\ Key6(r) = k IN BagFilter(InK, raw)
    IN  {AggRow(k, MinAcquired(BagToSet(G(k))),
                BagSum(Credit, G(k)), "Mortgage Loan", BagSum(Credit, G(k)), "Inflow")
            : k \in {Key6(r) : r \in rows}}

\* Third SELECT: the 'Mortgage Loan' inflow of each mortgage-tagged group.
MortgageLoanSelect(raw) ==
    LET rows == {r \in BagToSet(raw) : IsMortgage(r)}
        G(k) == LET InK(r) == IsMortgage(r) /\ Key6(r) = k IN BagFilter(InK, raw)
    IN  {AggRow(k, MinAcquired(BagToSet(G(k))),
                0 - BagSum(Credit, G(k)), "Mortgage Loan", BagSum(Credit, G(k)), "Inflow")
            : k \in {Key6(r) : r \in rows}}

\* INSERT INTO gl_agg ... SELECT ... UNION ALL SELECT ... UNION ALL SELECT ...
InsertSelect(raw) ==
    SetToBag(NonMortgageSelect(raw)) (+) SetToBag(MortgagePaymentSelect(raw))
        (+) SetToBag(MortgageLoanSelect(raw))

\* prop_rows: the (property_name, property) pairs inserted into _prop_map.
prop_rows(df) ==
    [i \in 1..Len(df.rows) |->
        [property_name |-> df.rows[i]["Property Name"],
         property |-> BlankToNone(df.rows[i]["Property"])]]

\* UPDATE gl_agg SET property = (first match of property_name in _prop_map)
SetProperty(a, pmap) ==
    LET i == FirstMatch([k \in 1..Len(pmap) |-> pmap[k].property_name], a.property_name)
    IN  [a EXCEPT !.property = IF i = 0 THEN NULL ELSE pmap[i].property]

\* pd.to_datetime(statement_thru_date).to_period("M").to_timestamp(): the first
\* day of the cutoff month.
t1_start(statement_thru_date) == <<statement_thru_date[1], statement_thru_date[2]>>

\* pd.to_datetime(..., errors="raise") raises on a text that is no date.
DateParses(d) == Len(d) = 3

\* CAST(strftime('%Y', m) AS INTEGER) * 12 + CAST(strftime('%m', m) AS INTEGER)
MonthIndex(m) == m[1] * 12 + m[2]

LastNumberedDiff == 11

\* The CASE with BETWEEN 0 AND 10: the eleventh month back falls out of the window.
timeframe_case_short_window(month_start, t1) ==
    IF month_start # NoMonth /\ MonthIndex(month_start) > MonthIndex(t1)
    THEN "N/A"
    ELSE IF /\ month_start # NoMonth
            /\ MonthIndex(t1) - MonthIndex(month_start) >= 0
            /\ MonthIndex(t1) - MonthIndex(month_start) <= LastNumberedDiff - 1
    THEN "[T" \o ToString((MonthIndex(t1) - MonthIndex(month_start)) + 1) \o "]"
    ELSE "[T13]"

\* A CASE that labels a row without a month 'N/A'.
timeframe_case_no_month_na(month_start, t1) ==
    IF month_start = NoMonth \/ MonthIndex(month_start) > MonthIndex(t1)
    THEN "N/A"
    ELSE IF MonthIndex(t1) - MonthIndex(month_start) <= LastNumberedDiff
    THEN "[T" \o ToString((MonthIndex(t1) - MonthIndex(month_start)) + 1) \o "]"
    ELSE "[T13]"

\* The CASE expression of the timeframe UPDATE.  A NULL month_start makes both
\* WHEN conditions NULL, so the row takes the ELSE branch.
timeframe_case(month_start, t1) ==
    IF month_start # NoMonth /\ MonthIndex(month_start) > MonthIndex(t1)
    THEN "N/A"
    ELSE IF /\ month_start # NoMonth
            /\ MonthIndex(t1) - MonthIndex(month_start) >= 0
            /\ MonthIndex(t1) - MonthIndex(month_start) <= LastNumberedDiff
    THEN "[T" \o ToString((MonthIndex(t1) - MonthIndex(month_start)) + 1) \o "]"
    ELSE "[T13]"

\* The rows build_aggregate_table commits when nothing raises.
BuildRows(raw, investor_table_df, statement_thru_date) ==
    LET pmap == prop_rows(investor_table_df)
        t1 == t1_start(statement_thru_date)
        Finish(a) == [SetProperty(a, pmap) EXCEPT
                         !.timeframe = timeframe_case(a.month_start, t1)]
    IN  BagMap(Finish, InsertSelect(raw))

----------------------------------------------------------------------------
(* The operations of part 1 (part1_gl/main.py and the functions it calls).  *)

NoSetup == [ok |-> FALSE]

\* A reset that creates gl_raw only if it is missing and keeps its rows.
reset_raw_table_keeping_rows(raw) == raw

\* reset_raw_table: DROP TABLE IF EXISTS, CREATE TABLE; what the new table holds.
reset_raw_table(raw) == EmptyBag

\* A reset that creates the table only if it is missing and keeps its rows.
reset_agg_table_keeping_rows(agg) == agg

\* reset_agg_table: DROP TABLE IF EXISTS, CREATE TABLE; what the new table holds.
reset_agg_table(agg) == EmptyBag

Raise(type, what) == [type |-> type, what |-> what, groups |-> {}]

\* load_setup_config(SETUP_XLSX_PATH)
load_setup_config ==
    /\ pc = "start"
    /\ LET r == load_setup_config_result(workbook)
       IN  IF r.ok
           THEN /\ setup' = r.setup
                /\ pc' = "loaded"
                /\ err' = NoError
           ELSE /\ setup' = setup
                /\ pc' = "failed"
                /\ err' = r.err
    /\ stages' = Append(stages, "config")
    /\ UNCHANGED <<argv, parts, caller, before, workbook, export, config,
                   folders, tables, gl_raw, gl_agg, out>>

\* _create_investor_folders: one folder per investor of the run configuration.
create_investor_folders ==
    /\ pc = "loaded"
    /\ folders' = folders \cup setup.investors
    /\ pc' = "folders"
    /\ UNCHANGED <<argv, parts, stages, caller, before, workbook, export, config,
                   setup, tables, gl_raw, gl_agg, err, out>>

\* An ingestion that reports a missing export and lets the run go on.
ingest_gl_csv_to_raw_goes_on ==
    /\ pc = "folders"
    /\ IF ~ export.exists
       THEN /\ err' = Raise("FileNotFoundError", "GL CSV not found")
            /\ UNCHANGED <<tables, gl_raw>>
       ELSE /\ tables' = tables \cup {"gl_raw"}
            /\ gl_raw' = reset_raw_table(gl_raw) (+) IngestRows(export.lines)
            /\ err' = NoError
    /\ pc' = "ingested"
    /\ stages' = Append(stages, "ingest")
    /\ UNCHANGED <<argv, parts, caller, before, workbook, export, config,
                   setup, folders, gl_agg, out>>

\* An ingestion that drops and recreates gl_raw before it looks at the export.
ingest_gl_csv_to_raw_resets_first ==
    /\ pc = "folders"
    /\ tables' = tables \cup {"gl_raw"}
    /\ IF ~ export.exists
       THEN /\ pc' = "failed"
            /\ err' = Raise("FileNotFoundError", "GL CSV not found")
            /\ gl_raw' = reset_raw_table(gl_raw)
       ELSE IF ~ export.columns_ok
       THEN /\ pc' = "failed"
            /\ err' = Raise("ValueError", "GL CSV missing required columns")
            /\ gl_raw' = reset_raw_table(gl_raw)
       ELSE /\ gl_raw' = reset_raw_table(gl_raw) (+) IngestRows(export.lines)
            /\ pc' = "ingested"
            /\ err' = NoError
    /\ stages' = Append(stages, "ingest")
    /\ UNCHANGED <<argv, parts, caller, before, workbook, export, config,
                   setup, folders, gl_agg, out>>

\* ingest_gl_csv_to_raw: the file and its columns are checked before the table is
\* reset; then gl_raw is dropped, recreated and filled from the export.
ingest_gl_csv_to_raw ==
    /\ pc = "folders"
    /\ IF ~ export.exists
       THEN /\ pc' = "failed"
            /\ err' = Raise("FileNotFoundError", "GL CSV not found")
            /\ UNCHANGED <<tables, gl_raw>>
       ELSE IF ~ export.columns_ok
       THEN /\ pc' = "failed"
            /\ err' = Raise("ValueError", "GL CSV missing required columns")
            /\ UNCHANGED <<tables, gl_raw>>
       ELSE /\ tables' = tables \cup {"gl_raw"}
            /\ gl_raw' = reset_raw_table(gl_raw) (+) IngestRows(export.lines)
            /\ pc' = "ingested"
            /\ err' = NoError
    /\ stages' = Append(stages, "ingest")
    /\ UNCHANGED <<argv, parts, caller, before, workbook, export, config,
                   setup, folders, gl_agg, out>>

\* apply_mappings_inplace(db, gl_raw, investor_table_df, gl_mapping_df): the
\* unpacking loops run before any row is written, so a ValueError leaves gl_raw as
\* it was.
apply_mappings_inplace(investor_table_df, gl_mapping_df) ==
    /\ pc = "ingested"
    /\ IF UnpackFails(investor_table_df, gl_mapping_df)
       THEN /\ pc' = "failed"
            /\ err' = Raise("ValueError", "too many values to unpack")
            /\ gl_raw' = gl_raw
       ELSE /\ gl_raw' = EnrichRows(gl_raw, investor_table_df, gl_mapping_df)
            /\ pc' = "enriched"
            /\ err' = NoError
    /\ stages' = Append(stages, "enrich")
    /\ UNCHANGED <<argv, parts, caller, before, workbook, export, config,
                   setup, folders, tables, gl_agg, out>>

\* A build that commits after the INSERT and the property UPDATE: a statement thru
\* date that does not parse leaves the inserted rows, their timeframe still NULL.
build_aggregate_table_commits_early(investor_table_df, statement_thru_date) ==
    /\ pc = "enriched"
    /\ tables' = tables \cup {"gl_agg"}
    /\ IF ~ DateParses(statement_thru_date)
       THEN /\ gl_agg' = LET pmap == prop_rows(investor_table_df)
                              Joined(a) == SetProperty(a, pmap)
                          IN  reset_agg_table(gl_agg) (+) BagMap(Joined, InsertSelect(gl_raw))
            /\ pc' = "failed"
            /\ err' = Raise("ValueError", "statement thru date does not parse")
       ELSE /\ gl_agg' = reset_agg_table(gl_agg)
                          (+) BuildRows(gl_raw, investor_table_df, statement_thru_date)
            /\ pc' = "aggregated"
            /\ err' = NoError
    /\ stages' = Append(stages, "aggregate")
    /\ UNCHANGED <<argv, parts, caller, before, workbook, export, config,
                   setup, folders, gl_raw, out>>

\* build_aggregate_table(db, gl_raw, gl_agg, investor_table_df, statement_thru_date):
\* reset_agg_table commits an empty gl_agg first; the INSERT and the two UPDATEs are
\* committed together at the end, so a statement thru date that does not parse leaves
\* the empty table.
build_aggregate_table(investor_table_df, statement_thru_date) ==
    /\ pc = "enriched"
    /\ tables' = tables \cup {"gl_agg"}
    /\ IF ~ DateParses(statement_thru_date)
       THEN /\ gl_agg' = reset_agg_table(gl_agg)
            /\ pc' = "failed"
            /\ err' = Raise("ValueError", "statement thru date does not parse")
       ELSE /\ gl_agg' = reset_agg_table(gl_agg)
                          (+) BuildRows(gl_raw, investor_table_df, statement_thru_date)
            /\ pc' = "aggregated"
            /\ err' = NoError
    /\ stages' = Append(stages, "aggregate")
    /\ UNCHANGED <<argv, parts, caller, before, workbook, export, config,
                   setup, folders, gl_raw, out>>

\* The six columns in the order apply_mappings_inplace unpacks them.
EnrichColumns == <<"Investor", "Property", "Property Name", "Owner", "Acquired", "Type">>

\* run_part1, enrichment: it passes setup.investor_table as the loader returned it.
run_part1_enrich ==
    /\ caller = "run_part1"
    /\ apply_mappings_inplace(setup.investor_table, setup.gl_mapping)

\* run_part1, aggregation: the call passes db_path, gl_raw_table and gl_agg_table
\* only; the two other required parameters are missing, so Python raises TypeError
\* before the body runs.
run_part1_aggregate ==
    /\ caller = "run_part1"
    /\ pc = "enriched"
    /\ pc' = "failed"
    /\ err' = Raise("TypeError", "missing 2 required positional arguments")
    /\ stages' = Append(stages, "aggregate")
    /\ UNCHANGED <<argv, parts, caller, before, workbook, export, config,
                   setup, folders, tables, gl_raw,
                   gl_agg, out>>

\* A caller that gives apply_mappings_inplace the six columns it unpacks.
call_enrich ==
    /\ caller = "direct"
    /\ apply_mappings_inplace([columns |-> EnrichColumns, rows |-> setup.investor_table.rows],
                              setup.gl_mapping)

\* A caller that gives build_aggregate_table its five arguments.
call_aggregate ==
    /\ caller = "direct"
    /\ build_aggregate_table(setup.investor_table, setup.general.statement_thru_date)

----------------------------------------------------------------------------
(* orchestrator.py: the command-line entry point.  A text is the sequence   *)
(* of its characters, so the identifier "1" is <<"1">>.                     *)

\* No --parts text: part 1 is not entered through orchestrator.py.
NoArgv == [given |-> FALSE]

RECURSIVE split(_, _)
\* str.split(sep): the pieces of the text between its separators.
split(text, sep) ==
    LET at == {i \in 1..Len(text) : text[i] = sep}
    IN  IF at = {} THEN <<text>>
        ELSE LET i == CHOOSE k \in at : \A j \in at : k <= j
             IN  <<SubSeq(text, 1, i - 1)>> \o split(SubSeq(text, i + 1, Len(text)), sep)

RECURSIVE strip(_)
\* str.strip(): the text without its leading and trailing blanks.
strip(text) ==
    IF text # <<>> /\ Head(text) = " " THEN strip(Tail(text))
    ELSE IF text # <<>> /\ text[Len(text)] = " " THEN strip(SubSeq(text, 1, Len(text) - 1))
    ELSE text

\* parts = [p.strip() for p in args.parts.split(",") if p.strip()]
parse_parts(text) ==
    LET pieces == split(text, ",")
        NonBlank(p) == p # <<>>
    IN  SelectSeq([i \in 1..Len(pieces) |-> strip(pieces[i])], NonBlank)

\* A loop body that takes every identifier other than "1" as not implemented.
branch_of_part_no_unknown(p) ==
    IF p = <<"1">> THEN "run_part1" ELSE "NotImplementedError"

\* The branch the loop body takes for one identifier: the call of run_part1 or
\* the exception raised.
branch_of_part(p) ==
    IF p = <<"1">> THEN "run_part1"
    ELSE IF p \in {<<"2">>, <<"3">>, <<"4">>} THEN "NotImplementedError"
    ELSE "ValueError"

\* A main that looks at every identifier before its loop and raises for the first
\* one it cannot run.
orchestrator_main_validates_first ==
    /\ pc = "cli"
    /\ LET ps == parse_parts(argv.parts)
           bad == {i \in 1..Len(ps) : branch_of_part(ps[i]) # "run_part1"}
       IN  IF ps = <<>>
           THEN /\ pc' = "failed"
                /\ err' = Raise("ValueError", "No parts provided.")
                /\ parts' = <<>>
           ELSE IF bad # {}
           THEN /\ pc' = "failed"
                /\ err' = LET b == branch_of_part(ps[CHOOSE i \in bad : \A j \in bad : i <= j])
                          IN  Raise(b, IF b = "NotImplementedError"
                                       THEN "Part not implemented yet." ELSE "Unknown part")
                /\ parts' = ps
           ELSE /\ pc' = "dispatch"
                /\ err' = NoError
                /\ parts' = ps
    /\ UNCHANGED <<argv, stages, caller, before, workbook, export, config, setup, folders,
                   tables, gl_raw, gl_agg, out>>

\* main, up to its loop: the identifiers are parsed; none at all is an error.
orchestrator_main ==
    /\ pc = "cli"
    /\ IF parse_parts(argv.parts) = <<>>
       THEN /\ pc' = "failed"
            /\ err' = Raise("ValueError", "No parts provided.")
            /\ parts' = <<>>
       ELSE /\ pc' = "dispatch"
            /\ err' = NoError
            /\ parts' = parse_parts(argv.parts)
    /\ UNCHANGED <<argv, stages, caller, before, workbook, export, config, setup, folders,
                   tables, gl_raw, gl_agg, out>>

\* One turn of main's loop: it starts once the identifiers are parsed, and again
\* when a call of run_part1 has returned.
orchestrator_next_part ==
    /\ argv.given
    /\ pc \in {"dispatch", "aggregated"}
    /\ IF parts = <<>>
       THEN /\ pc' = "done"
            /\ UNCHANGED <<parts, stages, err>>
       ELSE /\ parts' = Tail(parts)
            /\ IF branch_of_part(Head(parts)) = "run_part1"
               THEN /\ pc' = "start"
                    /\ stages' = <<>>
                    /\ err' = NoError
               ELSE /\ pc' = "failed"
                    /\ stages' = stages
                    /\ err' = Raise(branch_of_part(Head(parts)),
                                    IF branch_of_part(Head(parts)) = "NotImplementedError"
                                    THEN "Part not implemented yet." ELSE "Unknown part")
    /\ UNCHANGED <<argv, caller, before, workbook, export, config, setup, folders,
                   tables, gl_raw, gl_agg, out>>

----------------------------------------------------------------------------
(* part2_ppt/ppt_monthly_stmt_values.py: the query layer over gl_agg.       *)

\* str.lower() on the labels the model uses.
Lower(s) ==
    CASE s = "Revenue" -> "revenue" [] s = "REVENUE" -> "revenue"
      [] s = "Expense" -> "expense" [] s = "EXPENSE" -> "expense"
      [] s = "Other" -> "other"
      [] s = "Inflow" -> "inflow" [] s = "Outflow" -> "outflow" [] s = "Both" -> "both"
      [] s = "Ann" -> "ann" [] s = "Bob" -> "bob"
      [] s = "Oak LLC" -> "oak llc" [] s = "Elm LLC" -> "elm llc"
      [] s = "MAP" -> "map" [] s = "BIR" -> "bir" [] s = "CED" -> "ced"
      [] OTHER -> s

\* _TIMEFRAMES
TIMEFRAMES == {"[T" \o ToString(n) \o "]" : n \in 1..13}

\* The triplet listing without its timeframe condition.
NotNA_no_condition(r) == TRUE

\* (timeframe IS NULL OR timeframe <> 'N/A')
NotNA(r) == r.timeframe = NULL \/ r.timeframe # "N/A"
\* timeframe IN ('[T1]', ..., '[T13]')
InTimeframes(r) == r.timeframe # NULL /\ r.timeframe \in TIMEFRAMES

\* _owner_filter_sql: no filter for a missing or blank owner, else owner = ?
owner_filter(ctx, r) == ctx.owner = NULL \/ ctx.owner = "" \/ SqlEq(r.owner, ctx.owner)
\* A property filter that lets every row through.
property_filter_none(property_name, r) == TRUE

\* _property_filter_sql: no filter for a missing or blank property, else property = ?
property_filter(property_name, r) ==
    property_name = NULL \/ property_name = "" \/ SqlEq(r.property, property_name)

\* list_investor_owner_property_triplets (the ORDER BY is not modelled).
list_investor_owner_property_triplets(agg) ==
    {<<r.investor, r.owner, r.property>> :
        r \in {x \in BagToSet(agg) :
                 /\ COALESCE(x.investor, "") # ""
                 /\ COALESCE(x.owner, "") # ""
                 /\ COALESCE(x.property, "") # ""
                 /\ NotNA(x)}}

\* strftime("%b"): the inverse of MonthNumber.
MonthAbbr(m) ==
    CASE m = 1 -> "Jan" [] m = 2 -> "Feb" [] m = 3 -> "Mar" [] m = 4 -> "Apr"
      [] m = 5 -> "May" [] m = 6 -> "Jun" [] m = 7 -> "Jul" [] m = 8 -> "Aug"
      [] m = 9 -> "Sep" [] m = 10 -> "Oct" [] m = 11 -> "Nov" [] OTHER -> "Dec"

\* build_month_year_labels: token -> "Mon YYYY" of MAX(month_start) per timeframe.
build_month_year_labels(agg, ctx, property_name) ==
    LET rows == {r \in BagToSet(agg) :
                    /\ SqlEq(r.investor, ctx.investor)
                    /\ r.timeframe # NULL
                    /\ r.timeframe # "N/A"
                    /\ InTimeframes(r)
                    /\ r.month_start # NoMonth
                    /\ owner_filter(ctx, r)
                    /\ property_filter(property_name, r)}
        maxOf(tf) == CHOOSE m \in {r.month_start : r \in {x \in rows : x.timeframe = tf}} :
                        \A r \in rows : r.timeframe = tf =>
                            MonthIndex(r.month_start) <= MonthIndex(m)
    IN  [tf \in {r.timeframe : r \in rows} |-> <<MonthAbbr(maxOf(tf)[2]), maxOf(tf)[1]>>]

\* A whitelist that also takes 'Owner Distribution'.
wanted_cats_and_distribution ==
    {"Rent", "Dividend", "HOA & Mgt. Fee", "Repairs & Other Exp.", "Mortgage Interest",
     "Owner Distribution"}

\* wanted_cats
wanted_cats == {"Rent", "Dividend", "HOA & Mgt. Fee", "Repairs & Other Exp.", "Mortgage Interest"}

Value(r) == r.value
CashValue(r) == r.cash_value

\* The sign test without lower(): only 'Revenue' and 'Expense' as written flip.
perf_sign_case_sensitive(mapping_type) ==
    IF COALESCE(mapping_type, "") \in {"Revenue", "Expense"} THEN 0 - 1 ELSE 1

\* The sign applied to a (categorization, gl_mapping_type) group total.
perf_sign(mapping_type) ==
    IF Lower(COALESCE(mapping_type, "")) \in {"revenue", "expense"} THEN 0 - 1 ELSE 1

\* The WHERE clause of build_monthly_perf_totals.
perf_where(ctx, property_name, r) ==
    /\ SqlEq(r.investor, ctx.investor)
    /\ NotNA(r)
    /\ InTimeframes(r)
    /\ r.categorization # NULL /\ r.categorization \in wanted_cats
    /\ owner_filter(ctx, r)
    /\ property_filter(property_name, r)

\* build_monthly_perf_totals: the returned dict, as a function of its keys.
build_monthly_perf_totals(agg, ctx, property_name) ==
    LET Sel(r) == perf_where(ctx, property_name, r)
        rows == BagFilter(Sel, agg)
        groups == {<<r.categorization, r.gl_mapping_type>> : r \in BagToSet(rows)}
        total(g) == LET InG(r) == r.categorization = g[1] /\ r.gl_mapping_type = g[2]
                    IN  BagSum(Value, BagFilter(InG, rows))
        cat_totals == [c \in wanted_cats |->
                         SumOver({g \in groups : g[1] = c},
                                 [g \in groups |-> perf_sign(g[2]) * total(g)])]
        total_rev == cat_totals["Rent"] + cat_totals["Dividend"]
        total_exp == cat_totals["HOA & Mgt. Fee"] + cat_totals["Repairs & Other Exp."]
                        + cat_totals["Mortgage Interest"]
    IN  [k \in wanted_cats \cup {"Total Revenue", "Total Expenses", "Monthly", "Cumulative"} |->
            IF k \in wanted_cats THEN cat_totals[k]
            ELSE IF k = "Total Revenue" THEN total_rev
            ELSE IF k = "Total Expenses" THEN total_exp
            ELSE total_rev + total_exp]

\* The WHERE clause of build_monthly_cash_totals.
cash_where(ctx, property_name, r) ==
    /\ SqlEq(r.investor, ctx.investor)
    /\ NotNA(r)
    /\ InTimeframes(r)
    /\ owner_filter(ctx, r)
    /\ property_filter(property_name, r)

\* The loop body without its special handling of 'Mortgage Principal' / 'Both':
\* every group goes by its cash-type label.
cash_group_by_label_only(cat, cash_type, total_value) ==
    LET cat_key == COALESCE(cat, "")
        ct == Lower(COALESCE(cash_type, ""))
        v_abs == Abs(0 - total_value)
    IN  IF ct = "inflow"
        THEN [cat_key |-> cat_key, v_signed |-> v_abs, inflow |-> v_abs, outflow |-> 0]
        ELSE IF ct = "outflow"
        THEN [cat_key |-> cat_key, v_signed |-> 0 - v_abs, inflow |-> 0, outflow |-> 0 - v_abs]
        ELSE [cat_key |-> cat_key, v_signed |-> 0, inflow |-> 0, outflow |-> 0]

\* The loop body with the label-driven groups taken by the sign of their value
\* instead of its magnitude.
cash_group_signed_value(cat, cash_type, total_value) ==
    LET cat_key == COALESCE(cat, "")
        ct == Lower(COALESCE(cash_type, ""))
        v_raw == 0 - total_value
        v_abs == Abs(v_raw)
    IN  IF ct = "both" /\ cat_key = "Mortgage Principal"
        THEN IF v_raw > 0
             THEN [cat_key |-> "Mortgage Loan", v_signed |-> v_abs,
                   inflow |-> v_abs, outflow |-> 0]
             ELSE IF v_raw < 0
             THEN [cat_key |-> "Mortgage Principal", v_signed |-> 0 - v_abs,
                   inflow |-> 0, outflow |-> 0 - v_abs]
             ELSE [cat_key |-> cat_key, v_signed |-> 0, inflow |-> 0, outflow |-> 0]
        ELSE IF ct = "inflow"
             THEN [cat_key |-> cat_key, v_signed |-> v_raw, inflow |-> v_raw, outflow |-> 0]
             ELSE IF ct = "outflow"
             THEN [cat_key |-> cat_key, v_signed |-> v_raw, inflow |-> 0, outflow |-> v_raw]
             ELSE [cat_key |-> cat_key, v_signed |-> 0, inflow |-> 0, outflow |-> 0]

\* One (cash_categorization, cash_type_mapping) group of build_monthly_cash_totals:
\* the category it lands in, its signed value and what it adds to the two totals.
cash_group(cat, cash_type, total_value) ==
    LET cat_key == COALESCE(cat, "")
        ct == Lower(COALESCE(cash_type, ""))
        v_raw == 0 - total_value
        v_abs == Abs(v_raw)
    IN  IF ct = "both" /\ cat_key = "Mortgage Principal"
        THEN IF v_raw > 0
             THEN [cat_key |-> "Mortgage Loan", v_signed |-> v_abs,
                   inflow |-> v_abs, outflow |-> 0]
             ELSE IF v_raw < 0
             THEN [cat_key |-> "Mortgage Principal", v_signed |-> 0 - v_abs,
                   inflow |-> 0, outflow |-> 0 - v_abs]
             ELSE [cat_key |-> cat_key, v_signed |-> 0, inflow |-> 0, outflow |-> 0]
        ELSE IF ct = "inflow"
             THEN [cat_key |-> cat_key, v_signed |-> v_abs, inflow |-> v_abs, outflow |-> 0]
             ELSE IF ct = "outflow"
             THEN [cat_key |-> cat_key, v_signed |-> 0 - v_abs,
                   inflow |-> 0, outflow |-> 0 - v_abs]
             ELSE [cat_key |-> cat_key, v_signed |-> 0, inflow |-> 0, outflow |-> 0]

cash_cats ==
    {"Owner Contribution", "Mortgage Loan", "Rent & Dividend", "HOA & Mgt. Fee",
     "Repairs & Other Exp.", "Mortgage Interest", "Mortgage Principal",
     "Apartment & Improve.", "Owner Distribution"}

\* build_monthly_cash_totals: the returned dict, as a function of its keys.
build_monthly_cash_totals(agg, ctx, property_name) ==
    LET Sel(r) == cash_where(ctx, property_name, r)
        rows == BagFilter(Sel, agg)
        groups == {<<r.cash_categorization, r.cash_type_mapping>> : r \in BagToSet(rows)}
        total(g) == LET InG(r) == r.cash_categorization = g[1] /\ r.cash_type_mapping = g[2]
                    IN  BagSum(CashValue, BagFilter(InG, rows))
        res == [g \in groups |-> cash_group(g[1], g[2], total(g))]
        by_cat(c) == SumOver({g \in groups : res[g].cat_key = c},
                             [g \in groups |-> res[g].v_signed])
        has(c) == \E g \in groups : res[g].cat_key = c
        inflow_total == SumOver(groups, [g \in groups |-> res[g].inflow])
        outflow_total == SumOver(groups, [g \in groups |-> res[g].outflow])
    IN  [k \in cash_cats \cup {"Total Inflow", "Total Outflow", "Monthly", "Cumulative"} |->
            IF k = "Mortgage Principal"
            THEN IF has("Mortgage Principal") THEN by_cat("Mortgage Principal")
                 ELSE by_cat("Mortgage Principle")
            ELSE IF k \in cash_cats THEN by_cat(k)
            ELSE IF k = "Total Inflow" THEN inflow_total
            ELSE IF k = "Total Outflow" THEN outflow_total
            ELSE inflow_total + outflow_total]

----------------------------------------------------------------------------
(* part2_ppt/excel_inputs.py, part2_ppt/main.py, part2_ppt/ppt_objects.py   *)

\* The rows a part-2 loader reads: it stops at the first row whose Investor cell
\* is empty.
RowsUntilBlankInvestor(sheet) ==
    LET blanks == {i \in 1..Len(sheet) : sheet[i]["Investor"] = ""}
        n == IF blanks = {} THEN Len(sheet)
             ELSE (CHOOSE i \in blanks : \A j \in blanks : i <= j) - 1
    IN  SubSeq(sheet, 1, n)

RECURSIVE run_rows_from(_, _, _)
\* The loop of load_run_config_rows from row i on: a row whose lower-cased
\* (investor, owner) pair was seen is skipped.
run_rows_from(sheet, i, seen_pairs) ==
    IF i > Len(sheet) THEN <<>>
    ELSE LET pair_key == <<Lower(sheet[i]["Investor"]), Lower(sheet[i]["Owner"])>>
         IN  IF pair_key \in seen_pairs
             THEN run_rows_from(sheet, i + 1, seen_pairs)
             ELSE <<[investor |-> sheet[i]["Investor"], owner |-> sheet[i]["Owner"]]>>
                     \o run_rows_from(sheet, i + 1, seen_pairs \cup {pair_key})

RECURSIVE printed_from(_, _, _)
\* The same loop from row i on: the rows for which "Run Config duplicate Investor
\* Owner pair detected and skipped" is printed, one line each.
printed_from(sheet, i, seen_pairs) ==
    IF i > Len(sheet) THEN <<>>
    ELSE LET pair_key == <<Lower(sheet[i]["Investor"]), Lower(sheet[i]["Owner"])>>
         IN  IF pair_key \in seen_pairs
             THEN <<i>> \o printed_from(sheet, i + 1, seen_pairs)
             ELSE printed_from(sheet, i + 1, seen_pairs \cup {pair_key})

\* load_run_config_rows: the run rows and the lines printed, or the error raised.
load_run_config_rows(sheet) ==
    LET rows == RowsUntilBlankInvestor(sheet)
    IN  IF \E i \in 1..Len(rows) : rows[i]["Owner"] = ""
        THEN [ok |-> FALSE, err |-> Raise("ValueError", "Run Config row missing Owner")]
        ELSE IF Len(rows) = 0
        THEN [ok |-> FALSE, err |-> Raise("ValueError", "No run rows found")]
        ELSE [ok |-> TRUE, rows |-> run_rows_from(rows, 1, {}),
              printed |-> printed_from(rows, 1, {})]

\* _parse_pct_100_format: a text is taken as it is written, a number in [0, 1] is
\* a fraction and is multiplied by 100.
parse_pct_100_format(cell) ==
    IF cell.kind = "str" THEN cell.v
    ELSE IF cell.v >= 0 /\ cell.v <= PctOne THEN cell.v * 100 ELSE cell.v

\* tolerance = 0.01
Tolerance == 2

\* abs(float(total) - 100.0) > tolerance
ownership_map_sum_bad(total) == Abs(total - Pct100) > Tolerance

RECURSIVE pcts_from(_, _, _)
\* out.setdefault(key, []).append(pct): for each key, the percentages of the rows
\* from i on that carry it (keys[i], pcts[i]), in row order.
pcts_from(keys, pcts, i) ==
    IF i > Len(keys) THEN [k \in {} |-> <<>>]
    ELSE LET rest == pcts_from(keys, pcts, i + 1)
             k == keys[i]
         IN  [q \in DOMAIN rest \cup {k} |->
                 IF q = k
                 THEN <<pcts[i]>> \o (IF k \in DOMAIN rest THEN rest[k] ELSE <<>>)
                 ELSE rest[q]]

\* What is wrong with row i of the investor table for the part-2 loader, "" if
\* nothing is.
ownership_row_problem(row) ==
    IF row["Owner"] = "" THEN "Investor Table row missing Owner"
    ELSE IF row["Property"] = "" THEN "Investor Table row missing Property"
    ELSE IF row["% Ownership"].kind = "blank" THEN "Investor Table row missing pct"
    ELSE IF parse_pct_100_format(row["% Ownership"]) <= 0
            \/ parse_pct_100_format(row["% Ownership"]) > Pct100
    THEN "Investor Table pct out of range"
    ELSE ""

\* load_investor_table_ownership_map: the map (investor, owner) -> list of
\* percentages, or the error raised.
load_investor_table_ownership_map(sheet) ==
    LET rows == RowsUntilBlankInvestor(sheet)
        idx == 1..Len(rows)
        pct(i) == parse_pct_100_format(rows[i]["% Ownership"])
        inv_owner_key(i) == <<Lower(rows[i]["Investor"]), Lower(rows[i]["Owner"])>>
        owner_prop_key(i) == <<Lower(rows[i]["Owner"]), Lower(rows[i]["Property"])>>
        wrong == {i \in idx : ownership_row_problem(rows[i]) # ""}
        sums == [k \in {owner_prop_key(i) : i \in idx} |->
                    SumOver({i \in idx : owner_prop_key(i) = k}, [i \in idx |-> pct(i)])]
        bad == {k \in DOMAIN sums : ownership_map_sum_bad(sums[k])}
    IN  IF wrong # {}
        THEN [ok |-> FALSE,
              err |-> Raise("ValueError",
                            ownership_row_problem(
                                rows[CHOOSE i \in wrong : \A j \in wrong : i <= j]))]
        ELSE IF Len(rows) = 0
        THEN [ok |-> FALSE, err |-> Raise("ValueError", "No Investor Table rows found")]
        ELSE IF bad # {}
        THEN [ok |-> FALSE,
              err |-> [type |-> "ValueError", what |-> "Investor Table ownership sums",
                       groups |-> bad]]
        ELSE [ok |-> TRUE, map |-> pcts_from([i \in idx |-> inv_owner_key(i)],
                                         [i \in idx |-> pct(i)], 1)]

\* The context of a run row with the largest of the pair's percentages taken.
run_context_max_pct(run, ownership_map) ==
    LET map_key == <<Lower(run.investor), Lower(run.owner)>>
        pcts == ownership_map[map_key]
        vals == {pcts[i] : i \in 1..Len(pcts)}
        ownership_pct == CHOOSE x \in vals : \A y \in vals : x >= y
    IN  IF map_key \notin DOMAIN ownership_map
        THEN [ok |-> FALSE, err |-> Raise("ValueError", "no properties for Investor Owner")]
        ELSE [ok |-> TRUE,
              ctx |-> [investor |-> run.investor, owner |-> run.owner,
                       ownership_pct |-> ownership_pct,
                       ownership_factor |-> [num |-> ownership_pct, den |-> Pct100]]]

\* main.py: the UpdateContext of one run row (the ownership factor is
\* ownership_pct / 100.0, kept as the fraction num/den).
run_context(run, ownership_map) ==
    LET map_key == <<Lower(run.investor), Lower(run.owner)>>
        pcts == ownership_map[map_key]
        vals == {pcts[i] : i \in 1..Len(pcts)}
        all_full == \A x \in vals : x >= Pct100
        ownership_pct == IF all_full THEN Pct100
                         ELSE CHOOSE x \in vals : \A y \in vals : x <= y
    IN  IF map_key \notin DOMAIN ownership_map
        THEN [ok |-> FALSE, err |-> Raise("ValueError", "no properties for Investor Owner")]
        ELSE [ok |-> TRUE,
              ctx |-> [investor |-> run.investor, owner |-> run.owner,
                       ownership_pct |-> ownership_pct,
                       ownership_factor |-> [num |-> ownership_pct, den |-> Pct100]]]

\* amount * factor (the amounts of the model are multiples of 200.00, so the
\* product is a whole number of cents).
Times(amount, factor) == (amount * factor.num) \div factor.den

\* apply_ownership_amount without its three early returns.
apply_ownership_amount_always_scaled(cfg, ctx, amount, key) ==
    Times(amount, ctx.ownership_factor)

\* apply_ownership_amount(ctx, amount, key) under config.py's two settings.
apply_ownership_amount(cfg, ctx, amount, key) ==
    IF cfg.OWNERSHIP_FORCE_100_PCT_IN_PART2 THEN amount
    ELSE IF ctx.ownership_pct >= Pct100 THEN amount
    ELSE IF key # "" /\ key \in cfg.OWNERSHIP_SCALING_EXCEPTIONS THEN amount
    ELSE Times(amount, ctx.ownership_factor)

----------------------------------------------------------------------------
(* part2_ppt/ppt_object_logic.py: the updaters apply_object_updates calls   *)
(* (OBJECT_UPDATERS).  A month label "Mon YYYY" is the pair <<"Mon", YYYY>>.*)

\* _month_year_label: strftime("%b %Y") of a month <<y, m>>.
month_year_label(m) == <<MonthAbbr(m[2]), m[1]>>

\* _add_months(dt, months) on the first day of a month.
add_months(dt, months) ==
    <<dt[1] + ((dt[2] - 1 + months) \div 12), ((dt[2] - 1 + months) % 12) + 1>>

\* _update_cover_title: token_map = {"[T1]": ctx.t1_str}, the statement month.
update_cover_title(statement_thru_date) ==
    [tf \in {"[T1]"} |-> month_year_label(t1_start(statement_thru_date))]

\* token_to_month_start of _update_monthly_perf_table: months_back = 13 - n, so
\* [T13] is the statement month and [T1] the month twelve months before it.
token_to_month_start(statement_thru_date) ==
    [tf \in TIMEFRAMES |->
        LET n == CHOOSE k \in 1..13 : tf = "[T" \o ToString(k) \o "]"
        IN  add_months(t1_start(statement_thru_date), 0 - (13 - n))]

\* wanted_cats of _update_monthly_perf_table
perf_table_cats ==
    {"Rent", "Other Revenue", "Mortgage", "HOA", "Mgt. Fee", "Repairs Exp.", "Other Expense"}

\* The WHERE clause of _update_monthly_perf_table: the investor alone, no owner.
perf_table_where(ctx, r) ==
    /\ SqlEq(r.investor, ctx.investor)
    /\ NotNA(r)
    /\ InTimeframes(r)
    /\ r.categorization # NULL /\ r.categorization \in perf_table_cats

\* The data rows of the template's monthly_perf_table, top to bottom: the token
\* each one carries in its Month Year cell.
TemplateRows ==
    <<"[T1]", "[T2]", "[T3]", "[T4]", "[T5]", "[T6]", "[T7]", "[T8]", "[T9]", "[T10]",
      "[T11]", "[T12]", "[T13]">>

\* _update_monthly_perf_table: for each data row of the table, the label written
\* into its Month Year cell and the figures written beside it.
update_monthly_perf_table(agg, ctx, statement_thru_date) ==
    LET Sel(r) == perf_table_where(ctx, r)
        rows == BagFilter(Sel, agg)
        vals(tf, cat) ==
            LET In(r) == r.timeframe = tf /\ r.categorization = cat
                sub == BagFilter(In, rows)
                Signed(r) == perf_sign(r.gl_mapping_type) * r.value
            IN  BagSum(Signed, sub)
        total_rev(tf) == vals(tf, "Rent") + vals(tf, "Other Revenue")
        total_exp(tf) == vals(tf, "Mortgage") + vals(tf, "HOA") + vals(tf, "Mgt. Fee")
                            + vals(tf, "Repairs Exp.") + vals(tf, "Other Expense")
        monthly(tf) == total_rev(tf) + total_exp(tf)
        Monthly(tf) == monthly(tf)
        labels == token_to_month_start(statement_thru_date)
    IN  [k \in 1..Len(TemplateRows) |->
            LET tf == TemplateRows[k]
            IN  [token |-> tf,
                 label |-> month_year_label(labels[tf]),
                 Rent |-> vals(tf, "Rent"),
                 total_rev |-> total_rev(tf),
                 total_exp |-> total_exp(tf),
                 monthly |-> monthly(tf),
                 cumulative |-> SeqSum(Monthly, SubSeq(TemplateRows, 1, k), 1)]]

(* ---------------------------------------------------------------------- *)
(* part2_ppt/ppt_append.py                                                  *)
(* ---------------------------------------------------------------------- *)

\* A deck is kept as the visibility of its named shapes: a function from the
\* names of the shapes on its slides to whether the shape is visible.
normal_names == {"overview_title", "perf_summary_title", "cash_summary_title"}

pct_names == {"overview_title_pct", "perf_summary_title_pct",
              "cash_summary_title_pct", "pct_owner_note"}

\* _should_show, with is_partial of the enclosing function passed in.
should_show(shape_name, is_partial) ==
    IF shape_name \in normal_names THEN ~is_partial
    ELSE IF shape_name \in pct_names THEN is_partial
    ELSE TRUE

\* _apply_visibility_rules_to_presentation (the second definition, which is the
\* one bound when it is called): every shape of every slide whose name is a
\* normal or a '_pct' name is assigned its Visible property inside
\* 'try: ... except Exception: pass'.  raising is the set of shape names for
\* which that statement raises (the shape does not take Visible, or the name
\* msoTrue / msoFalse is not found in win32com.client.constants); such a shape
\* keeps the visibility it has.
apply_visibility_rules_to_presentation(pres_obj, ownership_pct_value, raising) ==
    LET is_partial == ownership_pct_value < Pct100
    IN  [nm \in DOMAIN pres_obj |->
            IF (nm \in normal_names \/ nm \in pct_names) /\ nm \notin raising
            THEN should_show(nm, is_partial)
            ELSE pres_obj[nm]]

\* The owner templates and standard slides of the runs, as the visibility of
\* the named shapes of the combined deck before the rules are applied: every
\* title and its '_pct' variant visible, the '_pct' variants and the note
\* hidden, and a deck without the cash summary slide.
AllShapes == normal_names \cup pct_names \cup {"cover_title"}

DeckAllVisible == [nm \in AllShapes |-> TRUE]

DeckPctHidden == [nm \in AllShapes |-> nm \notin pct_names]

DeckNoCashSlide ==
    [nm \in AllShapes \ {"cash_summary_title", "cash_summary_title_pct"} |-> TRUE]

Decks == {DeckAllVisible, DeckPctHidden, DeckNoCashSlide}

\* The shapes whose Visible assignment raises in a run: none, one shape, or
\* every one (the constants are not found).
RaisingSets == {{}, {"overview_title_pct"}, normal_names \cup pct_names}

----------------------------------------------------------------------------
(* The operations of part 2.  Part 2 is run after part 1 has ended; each   *)
(* call below leaves what it returned in out.                              *)

PartOneEnded == pc \in {"aggregated", "failed"}

NoSuchTable == [ok |-> FALSE, err |-> Raise("OperationalError", "no such table: gl_agg")]

\* The property arguments the callers pass: None, or a property code of the
\* investor table.
PropertyArgs ==
    {NULL} \cup {workbook.investor_table[i]["Property"] : i \in 1..Len(workbook.investor_table)}

\* main.py:39-42
main_load_run_config_rows ==
    /\ PartOneEnded
    /\ out = NoOut
    /\ out' = [fn |-> "load_run_config_rows",
               result |-> load_run_config_rows(workbook.run_config)]
    /\ UNCHANGED <<argv, parts, stages, caller, before, workbook, export, config,
                   setup, folders, tables, gl_raw, gl_agg, pc, err>>

\* main.py:44
main_load_ownership_map ==
    /\ PartOneEnded
    /\ out = NoOut
    /\ out' = [fn |-> "load_investor_table_ownership_map",
               result |-> load_investor_table_ownership_map(workbook.investor_table)]
    /\ UNCHANGED <<argv, parts, stages, caller, before, workbook, export, config,
                   setup, folders, tables, gl_raw, gl_agg,
                   pc, err>>

\* main.py:57-101: the context of one run row.
main_run_context ==
    /\ out.fn = "load_investor_table_ownership_map"
    /\ out.result.ok
    /\ LET rc == load_run_config_rows(workbook.run_config)
       IN  /\ rc.ok
           /\ \E i \in 1..Len(rc.rows) :
                 out' = [fn |-> "run_context", run |-> rc.rows[i],
                         result |-> run_context(rc.rows[i], out.result.map)]
    /\ UNCHANGED <<argv, parts, stages, caller, before, workbook, export, config,
                   setup, folders, tables, gl_raw, gl_agg,
                   pc, err>>

\* What a query function hands back: its value, or sqlite3's error when the
\* aggregate table was never created.
Answer(name, ctx, property_name, value) ==
    [fn |-> name, ctx |-> ctx, property_name |-> property_name,
     result |-> IF "gl_agg" \in tables THEN [ok |-> TRUE, value |-> value] ELSE NoSuchTable]

call_build_month_year_labels ==
    /\ out.fn = "run_context"
    /\ out.result.ok
    /\ \E property_name \in PropertyArgs :
          out' = Answer("build_month_year_labels", out.result.ctx, property_name,
                        build_month_year_labels(gl_agg, out.result.ctx, property_name))
    /\ UNCHANGED <<argv, parts, stages, caller, before, workbook, export, config,
                   setup, folders, tables, gl_raw, gl_agg,
                   pc, err>>

call_build_monthly_perf_totals ==
    /\ out.fn = "run_context"
    /\ out.result.ok
    /\ \E property_name \in PropertyArgs :
          out' = Answer("build_monthly_perf_totals", out.result.ctx, property_name,
                        build_monthly_perf_totals(gl_agg, out.result.ctx, property_name))
    /\ UNCHANGED <<argv, parts, stages, caller, before, workbook, export, config,
                   setup, folders, tables, gl_raw, gl_agg,
                   pc, err>>

call_build_monthly_cash_totals ==
    /\ out.fn = "run_context"
    /\ out.result.ok
    /\ \E property_name \in PropertyArgs :
          out' = Answer("build_monthly_cash_totals", out.result.ctx, property_name,
                        build_monthly_cash_totals(gl_agg, out.result.ctx, property_name))
    /\ UNCHANGED <<argv, parts, stages, caller, before, workbook, export, config,
                   setup, folders, tables, gl_raw, gl_agg,
                   pc, err>>

\* common/monthly_stmt_export.py:81
call_list_triplets ==
    /\ PartOneEnded
    /\ out = NoOut
    /\ out' = [fn |-> "list_investor_owner_property_triplets",
               result |-> IF "gl_agg" \in tables
                          THEN [ok |-> TRUE,
                                value |-> list_investor_owner_property_triplets(gl_agg)]
                          ELSE NoSuchTable]
    /\ UNCHANGED <<argv, parts, stages, caller, before, workbook, export, config,
                   setup, folders, tables, gl_raw, gl_agg,
                   pc, err>>

\* The figures and keys handed to apply_ownership_amount.
ScaledAmounts == {100000, 0 - 40000}
ScaledKeys == {"export.monthly_perf_table.Rent", "export.monthly_cash_table.Monthly", ""}

call_apply_ownership_amount ==
    /\ out.fn = "run_context"
    /\ out.result.ok
    /\ \E amount \in ScaledAmounts, key \in ScaledKeys :
          out' = [fn |-> "apply_ownership_amount", ctx |-> out.result.ctx,
                  amount |-> amount, key |-> key,
                  result |-> apply_ownership_amount(config, out.result.ctx, amount, key)]
    /\ UNCHANGED <<argv, parts, stages, caller, before, workbook, export, config,
                   setup, folders, tables, gl_raw, gl_agg,
                   pc, err>>

\* ppt_objects.py, apply_object_updates: every shape of the owner template whose
\* name is in OBJECT_UPDATERS is handed to its updater.  What is kept is what the
\* cover title and the monthly performance table show afterwards (the summary
\* table carries no timeframe token and is left out).
apply_object_updates ==
    /\ out.fn = "run_context"
    /\ out.result.ok
    /\ DateParses(workbook.general.statement_thru_date)
    /\ out' = [fn |-> "apply_object_updates", ctx |-> out.result.ctx,
               result |->
                   IF "gl_agg" \in tables
                   THEN [ok |-> TRUE,
                         cover_title |->
                             update_cover_title(workbook.general.statement_thru_date),
                         monthly_perf_table |->
                             update_monthly_perf_table(gl_agg, out.result.ctx,
                                 workbook.general.statement_thru_date)]
                   ELSE NoSuchTable]
    /\ UNCHANGED <<argv, parts, stages, caller, before, workbook, export, config,
                   setup, folders, tables, gl_raw, gl_agg, pc, err>>

\* main.py:127-141 and ppt_append.py, combine_presentations: the updated owner
\* template is saved as it is, the standard slides are inserted, the visibility
\* rules are applied to every slide with the run's ownership percentage, and the
\* deck is saved.  What is kept is the visibility of the named shapes of the
\* saved deck.
combine_presentations ==
    /\ out.fn = "apply_object_updates"
    /\ out.result.ok
    /\ \E pres \in Decks, raising \in RaisingSets :
          out' = [fn |-> "combine_presentations", ctx |-> out.ctx,
                  pres |-> pres, raising |-> raising,
                  result |->
                      [ok |-> TRUE,
                       visible |->
                           apply_visibility_rules_to_presentation(
                               pres, out.ctx.ownership_pct, raising)]]
    /\ UNCHANGED <<argv, parts, stages, caller, before, workbook, export, config,
                   setup, folders, tables, gl_raw, gl_agg, pc, err>>

Next ==
    \/ orchestrator_main
    \/ orchestrator_next_part
    \/ load_setup_config
    \/ create_investor_folders
    \/ ingest_gl_csv_to_raw
    \/ run_part1_enrich
    \/ run_part1_aggregate
    \/ call_enrich
    \/ call_aggregate
    \/ main_load_run_config_rows
    \/ main_load_ownership_map
    \/ main_run_context
    \/ call_build_month_year_labels
    \/ call_build_monthly_perf_totals
    \/ call_build_monthly_cash_totals
    \/ call_list_triplets
    \/ call_apply_ownership_amount
    \/ apply_object_updates
    \/ combine_presentations

----------------------------------------------------------------------------
(* The inputs: setup workbooks, ledger exports, config.py settings and what *)
(* the SQLite file holds from an earlier run.                               *)

\* The largest number of data rows of an export.
MaxRows == 2

num(v) == [kind |-> "num", v |-> v]
txt(v) == [kind |-> "str", v |-> v]

InvestorRow(investor, pct, owner, property_name, property, acquired, type) ==
    ("Investor" :> investor) @@ ("% Ownership" :> pct) @@ ("Owner" :> owner)
        @@ ("Property Name" :> property_name) @@ ("Property" :> property)
        @@ ("Acquired" :> acquired) @@ ("Type" :> type)

\* An Investor Table sheet: Maple is held through Oak LLC by Ann and Bob, Birch
\* through Elm LLC by Ann alone.
InvestorSheet(p1, p2, p3) ==
    << InvestorRow("Ann", p1, "Oak LLC", "Maple", "MAP", <<2020, 1, 15>>, "Individual"),
       InvestorRow("Bob", p2, "Oak LLC", "Maple", "MAP", <<2019, 5, 1>>, "Trust"),
       InvestorRow("Ann", p3, "Elm LLC", "Birch", "BIR", <<2021, 3, 1>>, "") >>

MappingRow(account, categorization, gl_type, cash_categorization, cash_type) ==
    ("GL Account" :> account) @@ ("Categorization" :> categorization)
        @@ ("GL Type" :> gl_type) @@ ("Cash Categorization" :> cash_categorization)
        @@ ("Cash Type" :> cash_type)

\* A GL Mapping sheet.  Account 4000 is listed twice (the first row is the one
\* the joins use); account 9999 of the exports is not listed.
MappingSheet ==
    << MappingRow("4000", "Rent", "Revenue", "Rent & Dividend", "Inflow"),
       MappingRow("2100", "Mortgage Interest", "Expense", "Mortgage", "Outflow"),
       MappingRow("2200", "Mortgage Interest", "Expense", "Mortgage Payment", "Outflow"),
       MappingRow("6000", "HOA & Mgt. Fee", "expense", "HOA & Mgt. Fee", "Outflow"),
       MappingRow("7000", "Rent", "Other", "Rent & Dividend", "Inflow"),
       MappingRow("8000", "Depreciation", "Expense", "", ""),
       MappingRow("2300", "Mortgage Principal", "Other", "Mortgage Principal", "Both"),
       MappingRow("3000", "Owner Distribution", "Other", "Owner Distribution", "Both"),
       MappingRow("3100", "Improvements", "Other", "Apartment & Improve.", ""),
       MappingRow("4100", "Dividend", "Revenue", "Rent & Dividend", "Inflow"),
       MappingRow("6100", "Repairs & Other Exp.", "Expense", "Repairs & Other Exp.", "Outflow"),
       MappingRow("4000", "Dividend", "Other", "Owner Contribution", "Inflow") >>

RunRow(investor, owner, pct) ==
    ("Investor" :> investor) @@ ("Owner" :> owner) @@ ("% Ownership" :> pct)

RunSheet ==
    << RunRow("Ann", "Oak LLC", num(12000)), RunRow("Bob", "Oak LLC", num(8000)),
       RunRow("Ann", "Elm LLC", num(20000)) >>

Workbook(investor_table, run_config, statement_thru_date) ==
    [ general        |-> [statement_thru_date |-> statement_thru_date],
      run_config     |-> run_config,
      investor_table |-> investor_table,
      gl_mapping     |-> MappingSheet ]

GoodSheet == InvestorSheet(num(12000), num(8000), num(20000))
\* Oak LLC / Maple held half and half.
HalfSheet == InvestorSheet(num(10000), num(10000), num(20000))
June == <<2024, 6, 30>>
January == <<2024, 1, 15>>
NotADate == <<0>>

Line(month, account, property_name, amounts) ==
    [Month |-> month, GL_Account |-> account, Property_Name |-> property_name,
     Debit |-> amounts[1], Credit |-> amounts[2]]

\* The kinds of data rows of a universe u = [months, accounts, properties, amounts],
\* numbered 0 .. KindCount(u) - 1.
KindCount(u) == Len(u.months) * Len(u.accounts) * Len(u.properties) * Len(u.amounts)

Kind(u, i) ==
    LET nm == Len(u.months)
        na == Len(u.accounts)
        np == Len(u.properties)
    IN  Line(u.months[(i % nm) + 1],
             u.accounts[((i \div nm) % na) + 1],
             u.properties[((i \div (nm * na)) % np) + 1],
             u.amounts[(i \div (nm * na * np)) + 1])

\* The exports of at most n data rows over the kinds of u.  The tables are bags,
\* so one order of the rows stands for all of them.
Exports(u, n) ==
    {[exists |-> TRUE, columns_ok |-> TRUE,
      lines |-> [j \in 1..Len(ix) |-> Kind(u, ix[j])]] :
        ix \in UNION {{s \in [1..m -> 0..(KindCount(u) - 1)] :
                         \A j \in 1..(m - 1) : s[j] <= s[j + 1]} : m \in 0..n}}

NoExport == [exists |-> FALSE, columns_ok |-> FALSE, lines |-> <<>>]
WrongColumns == [exists |-> TRUE, columns_ok |-> FALSE, lines |-> <<>>]

\* part2_ppt/config.py as it is in the repository.
RepoConfig == [OWNERSHIP_FORCE_100_PCT_IN_PART2 |-> TRUE, OWNERSHIP_SCALING_EXCEPTIONS |-> {}]

\* config.py with each of its two ownership settings edited.
Configs ==
    {[OWNERSHIP_FORCE_100_PCT_IN_PART2 |-> f, OWNERSHIP_SCALING_EXCEPTIONS |-> e] :
        f \in BOOLEAN, e \in {{}, {"export.monthly_perf_table.Rent"}}}

\* What gl_raw and gl_agg hold after a run of the three steps over these inputs.
PipelineRaw(wb, lines) ==
    LET s == load_setup_config_result(wb).setup
    IN  EnrichRows(IngestRows(lines),
                   [columns |-> EnrichColumns, rows |-> s.investor_table.rows], s.gl_mapping)

PipelineAgg(wb, lines) ==
    LET s == load_setup_config_result(wb).setup
    IN  BuildRows(PipelineRaw(wb, lines), s.investor_table, s.general.statement_thru_date)

\* The SQLite file a run starts on: a new file, the file a run over another
\* export left, or the file a run on these very inputs left.
EarlierLines == << Line(<<"May", 2024>>, "4000", "Birch", << <<70000>>, <<>> >>) >>
StoreAfter(wb, lines) ==
    [tables |-> {"gl_raw", "gl_agg"}, gl_raw |-> PipelineRaw(wb, lines),
     gl_agg |-> PipelineAgg(wb, lines)]
Fresh == [tables |-> {}, gl_raw |-> EmptyBag, gl_agg |-> EmptyBag]
StoreBefore(prior, wb, lines) ==
    CASE prior = "new file" -> Fresh
      [] prior = "other export" -> StoreAfter(wb, EarlierLines)
      [] prior = "same inputs" -> StoreAfter(wb, lines)

Inputs(callers, workbooks, exports, configs, priors) ==
    {[caller |-> c, workbook |-> w, export |-> e, config |-> g, prior |-> p,
      argv |-> NoArgv] :
        c \in callers, w \in workbooks, e \in exports, g \in configs, p \in priors}

\* The same runs started as "python orchestrator.py --parts <text>".
CommandLines(inputs, texts) ==
    {[i EXCEPT !.argv = [given |-> TRUE, parts |-> t]] : i \in inputs, t \in texts}

InitFrom(inputs) ==
    \E i \in inputs :
        /\ argv = i.argv
        /\ parts = <<>>
        /\ stages = <<>>
        /\ caller = i.caller
        /\ workbook = i.workbook
        /\ export = i.export
        /\ config = i.config
        /\ before = StoreBefore(i.prior, i.workbook, i.export.lines)
        /\ tables = before.tables
        /\ gl_raw = before.gl_raw
        /\ gl_agg = before.gl_agg
        /\ setup = NoSetup
        /\ folders = {}
        /\ pc = IF i.argv.given THEN "cli" ELSE "start"
        /\ err = NoError
        /\ out = NoOut

\* Months after, at, 11 and 12 months before the June cutoff and a label that is
\* no month; a rent account, a mortgage-tagged account and an unmapped one; a
\* property with and one without an ownership entry.
LabelUniverse ==
    [ months     |-> << <<"Jul", 2024>>, <<"Jun", 2024>>, <<"Jul", 2023>>, <<"Jun", 2023>>,
                        <<"n/a", 0>> >>,
      accounts   |-> <<"4000", "2100", "9999">>,
      properties |-> <<"Maple", "Ghost">>,
      amounts    |-> << << <<30000>>, <<10000>> >> >> ]

\* Records that share and that differ in each part of the group key: two months;
\* a rent account, a mortgage-tagged account and one whose cash categorization is
\* already 'Mortgage Payment'; properties of two owners; amounts with and without
\* a debit.
GroupUniverse ==
    [ months     |-> << <<"Jun", 2024>>, <<"Jun", 2023>> >>,
      accounts   |-> <<"4000", "2100", "2200">>,
      properties |-> <<"Maple", "Birch">>,
      amounts    |-> << << <<30000>>, <<10000>> >>, << <<>>, <<20000>> >> >> ]

\* What the statements read: a month after the cutoff and two inside the window;
\* accounts mapped to Revenue, to expense in lower case, to another mapping type
\* and to Mortgage; a property with and one without an ownership entry.
QueryUniverse ==
    [ months     |-> << <<"Jul", 2024>>, <<"Jun", 2024>>, <<"May", 2024>> >>,
      accounts   |-> <<"4000", "6000", "7000", "2100">>,
      properties |-> <<"Maple", "Ghost">>,
      amounts    |-> << << <<10000>>, <<60000>> >> >> ]

\* What the cash statement reads: accounts whose cash type is Both under
\* 'Mortgage Principal' and under another categorization, missing, Inflow and
\* Outflow, and a mortgage-tagged account; amounts that net to a debit, to a
\* credit and to nothing.
CashUniverse ==
    [ months     |-> << <<"Jun", 2024>> >>,
      accounts   |-> <<"2300", "3000", "3100", "4000", "6000", "2100">>,
      properties |-> <<"Maple">>,
      amounts    |-> << << <<30000>>, <<10000>> >>, << <<10000>>, <<30000>> >>,
                        << <<20000>>, <<20000>> >> >> ]

\* What the performance statement adds up: one account of each of its five
\* categories (the mortgage interest account is not mortgage-tagged) and one of
\* a category it does not show, on two properties of one owner.
PerfUniverse ==
    [ months     |-> << <<"Jun", 2024>> >>,
      accounts   |-> <<"4000", "4100", "6000", "6100", "2200", "3000">>,
      properties |-> <<"Maple", "Cedar">>,
      amounts    |-> << << <<10000>>, <<60000>> >> >> ]

OneRun == << RunRow("Ann", "Oak LLC", num(20000)) >>

\* Run Config sheets: a pair listed twice among other rows, a pair listed again
\* in another letter case and with another share, an owner whose rows total 90,
\* no owner whose rows total 100, and a pair the Investor Table does not have.
RunSheets ==
    { RunSheet,
      << RunRow("Ann", "Oak LLC", num(12000)), RunRow("Ann", "Oak LLC", num(12000)),
         RunRow("Bob", "Oak LLC", num(8000)), RunRow("Ann", "Elm LLC", num(20000)),
         RunRow("Bob", "Oak LLC", num(2000)) >>,
      << RunRow("Ann", "Oak LLC", num(20000)), RunRow("ann", "Oak LLC", num(8000)),
         RunRow("Ann", "Elm LLC", num(20000)) >>,
      << RunRow("Ann", "Oak LLC", num(12000)), RunRow("Bob", "Oak LLC", num(6000)),
         RunRow("Ann", "Elm LLC", num(20000)) >>,
      << RunRow("Ann", "Oak LLC", num(12000)), RunRow("Bob", "Oak LLC", num(6000)) >>,
      << RunRow("Ann", "Oak LLC", num(12000)), RunRow("Bob", "Oak LLC", num(8000)),
         RunRow("Cy", "Pine LLC", num(20000)) >> }

\* Investor Tables in which Ann holds a second property, Cedar, through Oak LLC:
\* all of Cedar beside 60 percent of Maple, and all of both.
CedarAndMapleShare ==
    << InvestorRow("Ann", num(20000), "Oak LLC", "Cedar", "CED", <<2022, 2, 1>>, "Individual"),
       InvestorRow("Ann", num(12000), "Oak LLC", "Maple", "MAP", <<2020, 1, 15>>, "Individual"),
       InvestorRow("Bob", num(8000), "Oak LLC", "Maple", "MAP", <<2019, 5, 1>>, "Trust"),
       InvestorRow("Ann", num(20000), "Elm LLC", "Birch", "BIR", <<2021, 3, 1>>, "") >>
CedarAndMaple ==
    << InvestorRow("Ann", num(20000), "Oak LLC", "Cedar", "CED", <<2022, 2, 1>>, "Individual"),
       InvestorRow("Ann", num(20000), "Oak LLC", "Maple", "MAP", <<2020, 1, 15>>, "Individual"),
       InvestorRow("Ann", num(20000), "Elm LLC", "Birch", "BIR", <<2021, 3, 1>>, "") >>
CedarSheets == {CedarAndMapleShare, CedarAndMaple}
EmptyExport == [exists |-> TRUE, columns_ok |-> TRUE, lines |-> <<>>]

\* Investor tables whose Oak LLC / Maple group holds 60 and a second share of
\* 40, 30, 39.995, 40.005 or 40.02 percent.
SecondShares == {num(8000), num(6000), num(7999), num(8001), num(8004)}
ShareSheets == {InvestorSheet(num(12000), share, num(20000)) : share \in SecondShares}

\* Investor Tables whose shares are written as text fractions ("0.6", "0.4",
\* "1"), as 99.5 beside the text "0.5", as numeric fractions, as text percentages
\* ("60%"), with a share of 101 and with a share of 0.
PctSheets ==
    { InvestorSheet(txt(120), txt(80), txt(200)),
      InvestorSheet(num(19900), txt(100), num(20000)),
      InvestorSheet(num(120), num(80), num(200)),
      InvestorSheet(txt(12000), txt(8000), txt(20000)),
      InvestorSheet(num(12000), num(8000), num(20200)),
      InvestorSheet(num(12000), num(8000), num(0)) }
\* Run Config sheets whose one share is 100, the text "1", the number 1 and 101.
PctRuns ==
    { OneRun, << RunRow("Ann", "Oak LLC", txt(200)) >>,
      << RunRow("Ann", "Oak LLC", num(200)) >>, << RunRow("Ann", "Oak LLC", num(20200)) >> }

OneExport == Exports(QueryUniverse, 1)

\* The longest --parts text.
MaxArgLen == 3
\* The --parts texts: identifiers that are implemented, not implemented and
\* unknown, with commas and blanks.
ArgChars == {"1", "2", "3", "4", "9", ",", " "}
ArgTexts == UNION {[1..n -> ArgChars] : n \in 0..MaxArgLen}
RentLine == Line(<<"Jun", 2024>>, "4000", "Maple", << <<10000>>, <<60000>> >>)

\* The inputs of the runs.  The sheets, the cutoff, the store left by an earlier
\* run and config.py vary over short exports; the long exports run on the
\* repository's configuration and a new store.
RunInputs ==
    Inputs({"direct"}, {Workbook(GoodSheet, OneRun, June)},
           Exports(LabelUniverse, MaxRows) \cup Exports(GroupUniverse, MaxRows),
           {RepoConfig}, {"new file"})
    \cup Inputs({"direct"}, {Workbook(GoodSheet, RunSheet, June)},
                Exports(QueryUniverse, MaxRows), {RepoConfig}, {"new file"})
    \cup Inputs({"direct"},
                {Workbook(GoodSheet, OneRun, January), Workbook(GoodSheet, OneRun, NotADate),
                 Workbook(GoodSheet, OneRun, <<>>)},
                Exports(LabelUniverse, 1), {RepoConfig}, {"new file"})
    \cup Inputs({"direct"}, {Workbook(GoodSheet, OneRun, June)},
                Exports(LabelUniverse, 1) \cup {NoExport, WrongColumns}, {RepoConfig},
                {"other export", "same inputs"})
    \cup Inputs({"direct"}, {Workbook(GoodSheet, OneRun, June)},
                Exports(CashUniverse, MaxRows), {RepoConfig}, {"new file"})
    \cup Inputs({"direct"}, {Workbook(CedarAndMapleShare, OneRun, June)},
                Exports(PerfUniverse, MaxRows), {RepoConfig}, {"new file"})
    \cup Inputs({"direct"},
                {Workbook(sheet, runs, June) : sheet \in CedarSheets \cup {GoodSheet},
                                               runs \in RunSheets},
                {EmptyExport}, {RepoConfig}, {"new file"})
    \cup Inputs({"direct"}, {Workbook(HalfSheet, RunSheet, June)}, OneExport, Configs,
                {"new file"})
    \cup Inputs({"direct"},
                {Workbook(sheet, runs, June) : sheet \in PctSheets, runs \in PctRuns},
                {EmptyExport}, {RepoConfig}, {"new file"})
    \cup Inputs({"direct"}, {Workbook(sheet, OneRun, June) : sheet \in ShareSheets},
                {EmptyExport}, {RepoConfig}, {"new file"})
    \cup Inputs({"run_part1"},
                {Workbook(GoodSheet, OneRun, June), Workbook(<<>>, OneRun, June)},
                OneExport \cup {NoExport}, {RepoConfig}, {"new file", "other export"})
    \cup CommandLines(Inputs({"run_part1"}, {Workbook(GoodSheet, OneRun, June)},
                              {[exists |-> TRUE, columns_ok |-> TRUE, lines |-> <<RentLine>>]},
                              {RepoConfig}, {"new file"}),
                       ArgTexts)

Init == InitFrom(RunInputs)

Spec == Init /\ [][Next]_vars

----------------------------------------------------------------------------
(* The properties of build_aggregate_table.                                *)

Aggregated == pc = "aggregated"

\* The number of rows of a table that satisfy P.
CountRows(P(_), table) == BagCardinality(BagFilter(P, table))

\* Calendar months of a date or month: year * 12 + month.
CalendarMonths(d) == d[1] * 12 + d[2]

NumberedLabels ==
    <<"[T1]", "[T2]", "[T3]", "[T4]", "[T5]", "[T6]", "[T7]", "[T8]", "[T9]", "[T10]",
      "[T11]", "[T12]">>

\* C1: every aggregate row that has a month is labelled by diff = calendar months
\* of the cutoff minus calendar months of the row: 'N/A' when diff < 0,
\* '[T' diff+1 ']' when 0 <= diff <= 11, '[T13]' when diff >= 12.
C1_TimeframeLabels ==
    Aggregated =>
        \A a \in BagToSet(gl_agg) :
            a.month_start # NoMonth =>
                LET diff == CalendarMonths(setup.general.statement_thru_date)
                                - CalendarMonths(a.month_start)
                IN  a.timeframe = IF diff < 0 THEN "N/A"
                                  ELSE IF diff <= 11 THEN NumberedLabels[diff + 1]
                                  ELSE "[T13]"

\* A June cutoff with a row eleven months back and a row twelve months back.
C1_Witness ==
    /\ Aggregated
    /\ setup.general.statement_thru_date = June
    /\ \E a, b \in BagToSet(gl_agg) :
          /\ a.month_start = <<2023, 7>> /\ a.timeframe = "[T12]"
          /\ b.month_start = <<2023, 6>> /\ b.timeframe = "[T13]"

\* The enriched records of one group, the group key being the first n columns
\* of the seven.
KeyPrefix(r, n) == SubSeq(Key7(r), 1, n)
NetOf(records) == BagSum(Debit, records) - BagSum(Credit, records)
MortgageTagged(r) == r.cash_categorization = "Mortgage"

\* The rows the mortgage groups add under the seven-column key k.
MortgageLegsUnder(k) ==
    IF \E m \in BagToSet(gl_raw) : MortgageTagged(m) /\ KeyPrefix(m, 6) = SubSeq(k, 1, 6)
    THEN (IF k[7] = "Mortgage Payment" THEN 1 ELSE 0) + (IF k[7] = "Mortgage Loan" THEN 1 ELSE 0)
    ELSE 0

\* C2: each distinct non-mortgage group key (month, investor, owner, property
\* name, categorization, mapping type, cash categorization) of the enriched
\* records gets exactly one aggregate row, whose value and cash_value are both
\* sum(debit) - sum(credit) over the group.  (Rows that come from a mortgage
\* group under the same seven columns are counted apart.)
C2_OneRowPerGroup ==
    Aggregated =>
        \A r \in BagToSet(gl_raw) :
            ~ MortgageTagged(r) =>
                LET InGroup(x) == ~ MortgageTagged(x) /\ Key7(x) = Key7(r)
                    net == NetOf(BagFilter(InGroup, gl_raw))
                    UnderKey(a) == Key7(a) = Key7(r)
                    OfGroup(a) == UnderKey(a) /\ a.value = net /\ a.cash_value = net
                IN  /\ CountRows(UnderKey, gl_agg) = 1 + MortgageLegsUnder(Key7(r))
                    /\ CountRows(OfGroup, gl_agg) >= 1

\* Two records of one non-mortgage group with different amounts, and a second group.
C2_Witness ==
    /\ Aggregated
    /\ \E r \in BagToSet(gl_raw) :
          /\ ~ MortgageTagged(r)
          /\ r.debit # 0
          /\ \E x \in BagToSet(gl_raw) : Key7(x) = Key7(r) /\ x.debit = 0 /\ x.credit # r.credit
    /\ \E a \in BagToSet(gl_agg) : a.value = 30000 - 10000 - 20000 /\ a.cash_value = a.value

\* C3: each mortgage-tagged group (month, investor, owner, property name,
\* categorization, mapping type) gets exactly two aggregate rows, an Outflow
\* 'Mortgage Payment' row with value = cash_value = sum(debit) and an Inflow
\* 'Mortgage Loan' row with value = 0 - sum(credit) and cash_value = sum(credit),
\* and no aggregate row has cash categorization 'Mortgage'.
C3_MortgageLegs ==
    Aggregated =>
        /\ \A a \in BagToSet(gl_agg) : a.cash_categorization # "Mortgage"
        /\ \A r \in BagToSet(gl_raw) :
              MortgageTagged(r) =>
                  LET InGroup(x) == MortgageTagged(x) /\ KeyPrefix(x, 6) = KeyPrefix(r, 6)
                      group == BagFilter(InGroup, gl_raw)
                      UnderKey(a) == KeyPrefix(a, 6) = KeyPrefix(r, 6)
                      Payment(a) == /\ UnderKey(a)
                                    /\ a.cash_categorization = "Mortgage Payment"
                                    /\ a.cash_type_mapping = "Outflow"
                                    /\ a.value = BagSum(Debit, group)
                                    /\ a.cash_value = BagSum(Debit, group)
                      Loan(a) == /\ UnderKey(a)
                                 /\ a.cash_categorization = "Mortgage Loan"
                                 /\ a.cash_type_mapping = "Inflow"
                                 /\ a.value = 0 - BagSum(Credit, group)
                                 /\ a.cash_value = BagSum(Credit, group)
                      others == {Key7(x) : x \in {y \in BagToSet(gl_raw) :
                                    ~ MortgageTagged(y) /\ KeyPrefix(y, 6) = KeyPrefix(r, 6)}}
                  IN  /\ CountRows(Payment, gl_agg) >= 1
                      /\ CountRows(Loan, gl_agg) >= 1
                      /\ CountRows(UnderKey, gl_agg) = 2 + Cardinality(others)

\* A mortgage group of two records, aggregated into a payment and a loan row.
C3_Witness ==
    /\ Aggregated
    /\ \E r \in BagToSet(gl_raw) :
          /\ MortgageTagged(r)
          /\ r.debit # 0
          /\ \E x \in BagToSet(gl_raw) : KeyPrefix(x, 6) = KeyPrefix(r, 6) /\ x.debit = 0
    /\ \E a, b \in BagToSet(gl_agg) :
          /\ a.cash_categorization = "Mortgage Payment" /\ a.value = 30000
          /\ b.cash_categorization = "Mortgage Loan" /\ b.value = 0 - 30000
                /\ b.cash_value = 30000

\* C4: the aggregate store (and the raw store) after a run of ingestion,
\* enrichment and aggregation is the one these inputs produce on a new file,
\* whatever the two stores held before the run: a second run on identical
\* inputs leaves an identical store and rows never accumulate.
C4_StoreIndependentOfPriorRuns ==
    [][pc = "enriched" /\ pc' = "aggregated" =>
          /\ gl_agg' = PipelineAgg(workbook, export.lines)
          /\ gl_raw' = PipelineRaw(workbook, export.lines)]_vars

\* A run that ended over a store that held the aggregate rows of a run over
\* another export, none of which is left.
C4_Witness ==
    /\ Aggregated
    /\ gl_agg # EmptyBag
    /\ before.gl_agg # EmptyBag
    /\ \A a \in BagToSet(before.gl_agg) : ~ BagIn(a, gl_agg)
----------------------------------------------------------------------------
(* The properties of the loaders of the ownership table.                   *)

\* Every "% Ownership" cell is a number above 1 and at most 100, so that no
\* loader rescales or rejects a single row.
PlainShares(sheet) ==
    /\ Len(sheet) > 0
    /\ \A i \in 1..Len(sheet) :
          /\ sheet[i]["% Ownership"].kind = "num"
          /\ sheet[i]["% Ownership"].v > PctOne
          /\ sheet[i]["% Ownership"].v <= Pct100

\* The groups of the sheet under a loader's key whose shares do not sum to 100.0
\* within 0.01.
OffendingGroups(sheet, keyOf(_)) ==
    {k \in {keyOf(sheet[i]) : i \in 1..Len(sheet)} :
        Abs(SumOver({i \in 1..Len(sheet) : keyOf(sheet[i]) = k},
                    [i \in 1..Len(sheet) |-> sheet[i]["% Ownership"].v]) - Pct100) > Tolerance}

OwnerPropertyName(row) == <<row["Owner"], row["Property Name"]>>
OwnerProperty(row) == <<Lower(row["Owner"]), Lower(row["Property"])>>

\* load_setup_config got as far as the investor table.
Part1ReadInvestorTable ==
    /\ stages # <<>>
    /\ read_general_config(workbook.general).ok
    /\ read_run_config(workbook.run_config).ok

\* The part-2 loader succeeds exactly when every (owner, property) group sums to
\* 100.0 within 0.01, and its error names the offending groups.
Part2LoaderTolerates ==
    (out.fn = "load_investor_table_ownership_map" /\ PlainShares(workbook.investor_table)) =>
        LET offending == OffendingGroups(workbook.investor_table, OwnerProperty)
        IN  /\ out.result.ok <=> offending = {}
            /\ ~ out.result.ok => out.result.err.groups = offending

\* The part-1 loader succeeds exactly when every (owner, property name) group
\* sums to 100.0 within 0.01, and its error names the offending groups.
Part1LoaderTolerates ==
    (Part1ReadInvestorTable /\ PlainShares(workbook.investor_table)) =>
        LET offending == OffendingGroups(workbook.investor_table, OwnerPropertyName)
        IN  /\ setup # NoSetup <=> offending = {}
            /\ setup = NoSetup => err.groups = offending

\* C5: every loader of the ownership table succeeds exactly when each
\* (owner, property) group's shares sum to 100.0 within 0.01, and otherwise
\* fails with an error naming the offending groups.
C5_EveryLoaderTolerates == Part1LoaderTolerates /\ Part2LoaderTolerates

\* The part-1 loader has rejected a table whose groups all sum to 100.0 within
\* 0.01 (60 + 39.995), naming the Oak LLC / Maple group.
C5_Part1RejectsWithinTolerance ==
    /\ Part1ReadInvestorTable
    /\ PlainShares(workbook.investor_table)
    /\ OffendingGroups(workbook.investor_table, OwnerPropertyName) = {}
    /\ setup = NoSetup
    /\ err.groups = {<<"Oak LLC", "Maple">>}

----------------------------------------------------------------------------
(* The properties of the query layer and of the ownership scaling.         *)

Returned(fn) == out.fn = fn /\ out.result.ok

\* The aggregate rows a per-investor query reads for its context and property
\* argument: the investor's and owner's rows of the thirteen timeframes, of
\* the property when one is given.
ReadBy(a) ==
    /\ a.investor = out.ctx.investor
    /\ a.owner = out.ctx.owner
    /\ out.property_name # NULL => a.property = out.property_name
    /\ a.timeframe \in {NumberedLabels[n] : n \in 1..12} \cup {"[T13]"}

RevenueOrExpense(mapping_type) ==
    mapping_type \in {"Revenue", "revenue", "REVENUE", "Expense", "expense", "EXPENSE"}

DisplayedValue(a) == IF RevenueOrExpense(a.gl_mapping_type) THEN 0 - a.value ELSE a.value

\* C6: each whitelisted category's total returned by build_monthly_perf_totals is
\* the sum over its aggregate rows of -value for mapping type Revenue or Expense
\* in any letter case and of +value for every other mapping type.
C6_PerfTotalsSign ==
    Returned("build_monthly_perf_totals") =>
        \A cat \in {"Rent", "Dividend", "HOA & Mgt. Fee", "Repairs & Other Exp.",
                    "Mortgage Interest"} :
            LET OfCategory(a) == ReadBy(a) /\ a.categorization = cat
            IN  out.result.value[cat] = BagSum(DisplayedValue, BagFilter(OfCategory, gl_agg))

\* A Revenue row of value -500.00 is returned as Rent +500.00, and a row mapped to
\* 'expense' in lower case is flipped as well.
C6_Witness ==
    /\ Returned("build_monthly_perf_totals")
    /\ out.result.value["Rent"] = 50000
    /\ out.result.value["HOA & Mgt. Fee"] = 50000
    /\ \E a, b \in BagToSet(gl_agg) :
          /\ ReadBy(a) /\ a.categorization = "Rent" /\ a.gl_mapping_type = "Revenue"
                /\ a.value = 0 - 50000
          /\ ReadBy(b) /\ b.gl_mapping_type = "expense" /\ b.value = 0 - 50000

\* C7: apply_ownership_amount returns the amount unchanged when the force-100
\* override is set, the ownership percentage is at least 100 or the key is a
\* listed scaling exception, and otherwise the amount times pct/100.
C7_OwnershipScaling ==
    out.fn = "apply_ownership_amount" =>
        IF \/ config.OWNERSHIP_FORCE_100_PCT_IN_PART2
           \/ out.ctx.ownership_pct >= Pct100
           \/ out.key \in config.OWNERSHIP_SCALING_EXCEPTIONS
        THEN out.result = out.amount
        ELSE out.result * Pct100 = out.amount * out.ctx.ownership_pct

\* 1000.00 at 50 percent, no override and no exception, yields 500.00.
C7_Witness ==
    /\ out.fn = "apply_ownership_amount"
    /\ ~ config.OWNERSHIP_FORCE_100_PCT_IN_PART2
    /\ out.key \notin config.OWNERSHIP_SCALING_EXCEPTIONS
    /\ out.ctx.ownership_pct = 10000
    /\ out.amount = 100000
    /\ out.result = 50000

QueryFunctions ==
    {"build_month_year_labels", "build_monthly_perf_totals", "build_monthly_cash_totals"}

\* What the query function named in out returns over the store agg.
Requery(agg) ==
    CASE out.fn = "list_investor_owner_property_triplets" ->
            list_investor_owner_property_triplets(agg)
      [] out.fn = "build_month_year_labels" ->
            build_month_year_labels(agg, out.ctx, out.property_name)
      [] out.fn = "build_monthly_perf_totals" ->
            build_monthly_perf_totals(agg, out.ctx, out.property_name)
      [] out.fn = "build_monthly_cash_totals" ->
            build_monthly_cash_totals(agg, out.ctx, out.property_name)

IsQuery == out.fn \in QueryFunctions \cup {"list_investor_owner_property_triplets"}

\* C8: what the triplet listing, the month labels, the performance totals and
\* the cash totals return is what they return over the store without its 'N/A'
\* rows.
C8_NotApplicableRowsIgnored ==
    (IsQuery /\ out.result.ok) =>
        LET Dated(a) == a.timeframe # "N/A"
        IN  out.result.value = Requery(BagFilter(Dated, gl_agg))

\* The store holds rows, all of them after the cutoff, and the listing is empty.
C8_Witness ==
    /\ Returned("list_investor_owner_property_triplets")
    /\ \E a \in BagToSet(gl_agg) :
          a.timeframe = "N/A" /\ a.investor = "Ann" /\ a.property = "MAP"
    /\ out.result.value = {}

----------------------------------------------------------------------------
(* The properties of apply_mappings_inplace.                               *)

\* gl_raw holds the rows apply_mappings_inplace updated.
Enriched == pc \in {"enriched", "aggregated"}

OwnershipEntries(property_name) ==
    {i \in 1..Len(workbook.investor_table) :
        workbook.investor_table[i]["Property Name"] = property_name}

MappingRows(gl_account) ==
    {i \in 1..Len(workbook.gl_mapping) : workbook.gl_mapping[i]["GL Account"] = gl_account}

NoneIfBlank(cell) == IF cell = "" THEN NULL ELSE cell

\* C9: apply_mappings_inplace does not fail because of an unmatched key (it
\* fails only on the shape of the frame it is given, whatever the ledger holds);
\* after it, a record whose property name has no ownership entry has investor,
\* owner, acquisition date and investor type null, a record whose GL account
\* has no mapping row has its four categorization fields null, and a record
\* that matches carries the fields of a matching row whatever the other
\* records are.
C9_UnmatchedKeysLeftNull ==
    /\ (err # NoError /\ err.what = "too many values to unpack") =>
          caller = "run_part1" /\ Len(workbook.investor_table) > 0
    /\ Enriched =>
          /\ BagCardinality(gl_raw) = Len(export.lines)
          /\ \A r \in BagToSet(gl_raw) :
                /\ IF OwnershipEntries(r.property_name) = {}
                   THEN /\ r.investor = NULL /\ r.owner = NULL
                        /\ r.acquired = <<>> /\ r.investor_type = NULL
                   ELSE \E i \in OwnershipEntries(r.property_name) :
                           LET e == workbook.investor_table[i]
                           IN  /\ r.investor = e["Investor"]
                               /\ r.owner = NoneIfBlank(e["Owner"])
                               /\ r.acquired = e["Acquired"]
                               /\ r.investor_type = NoneIfBlank(e["Type"])
                /\ IF MappingRows(r.gl_account) = {}
                   THEN /\ r.categorization = NULL /\ r.gl_mapping_type = NULL
                        /\ r.cash_categorization = NULL /\ r.cash_type_mapping = NULL
                   ELSE \E i \in MappingRows(r.gl_account) :
                           LET m == workbook.gl_mapping[i]
                           IN  /\ r.categorization = NoneIfBlank(m["Categorization"])
                               /\ r.gl_mapping_type = NoneIfBlank(m["GL Type"])
                               /\ r.cash_categorization = NoneIfBlank(m["Cash Categorization"])
                               /\ r.cash_type_mapping = NoneIfBlank(m["Cash Type"])

\* Enrichment of a ledger with a record that matches on both keys and a record
\* that matches on neither.
C9_Witness ==
    /\ pc = "enriched"
    /\ \E r, q \in BagToSet(gl_raw) :
          /\ r.investor = "Ann" /\ r.owner = "Oak LLC" /\ r.categorization = "Rent"
          /\ OwnershipEntries(q.property_name) = {} /\ MappingRows(q.gl_account) = {}
          /\ q.investor = NULL /\ q.categorization = NULL

\* The records of the export whose property name has an ownership entry.
HasOwnershipEntry(line) == OwnershipEntries(line.Property_Name) # {}
OwnedLines == SelectSeq(export.lines, HasOwnershipEntry)

\* C10: with a record in the ledger whose property name has no ownership entry,
\* every value the query layer returns for an investor is the value it returns
\* over the store built from the ledger without such records.
C10_UnownedRecordsNeverContribute ==
    (Aggregated /\ IsQuery /\ out.result.ok /\ OwnedLines # export.lines) =>
        out.result.value = Requery(PipelineAgg(workbook, OwnedLines))

\* Performance totals for Ann over a ledger with a rent record of Maple and a
\* rent record of a property without an ownership entry: only Maple's counts.
C10_Witness ==
    /\ Aggregated
    /\ Returned("build_monthly_perf_totals")
    /\ out.ctx.investor = "Ann"
    /\ out.property_name = NULL
    /\ Len(export.lines) = 2
    /\ Len(OwnedLines) = 1
    /\ \A i \in 1..2 : export.lines[i].GL_Account = "4000" /\ export.lines[i].Month = <<"Jun", 2024>>
    /\ out.result.value["Rent"] = 50000

----------------------------------------------------------------------------
(* The properties of a part-1 run as a whole and of orchestrator.py.        *)

\* What the errors of load_setup_config and of a cutoff date that is no date say.
ConfigurationFailures ==
    {"General Config missing value", "Run Config blank pct", "Run Config pct range",
     "Run Config no valid rows", "Investor Table blank pct", "Investor Table pct range",
     "Investor Table pct total", "statement thru date does not parse"}
\* What the error of a ledger export that is not on disk says.
InputNotFound == {"GL CSV not found"}

\* The SQLite file is as it was when the run started.
StoreUntouched ==
    tables = before.tables /\ gl_raw = before.gl_raw /\ gl_agg = before.gl_agg

\* A run that failed inside load_setup_config has created no folder and has not
\* touched the store.
SetupFailureHasNoSideEffect ==
    (pc = "failed" /\ stages = <<"config">>) => folders = {} /\ StoreUntouched

\* C11: a run that has failed on a configuration failure (an unparsable
\* statement cutoff date included) or on a ledger export that is not found has
\* created no output folder and has left gl_raw and gl_agg as they were.
C11_FailureBeforeAnySideEffect ==
    (pc = "failed" /\ err.what \in ConfigurationFailures \cup InputNotFound) =>
        folders = {} /\ StoreUntouched

\* The export is not found after the investor folders have been created.
C11_FoldersBeforeMissingExport ==
    /\ pc = "failed"
    /\ err.type = "FileNotFoundError"
    /\ folders # {}
    /\ StoreUntouched

\* The cutoff date fails to parse after gl_raw has been rebuilt and gl_agg emptied.
C11_StoreRebuiltBeforeBadDate ==
    /\ pc = "failed"
    /\ err.what = "statement thru date does not parse"
    /\ gl_raw # before.gl_raw
    /\ "gl_agg" \in tables /\ "gl_agg" \notin before.tables

\* The setup workbook loads, its cutoff is a date and the export is on disk with
\* the columns of a ledger export.
ValidInputs ==
    /\ load_setup_config_result(workbook).ok
    /\ DateParses(workbook.general.statement_thru_date)
    /\ export.exists /\ export.columns_ok

\* C14: a run of run_part1 on a valid setup workbook and a well-formed export
\* does not fail, and when it has ended gl_agg is the aggregate of that export,
\* labelled from the configured cutoff date.
C14_ValidRunSucceeds ==
    (caller = "run_part1" /\ ValidInputs /\ stages # <<>>) =>
        /\ pc # "failed"
        /\ pc = "aggregated" => gl_agg = PipelineAgg(workbook, export.lines)

\* run_part1 on a valid workbook and export ends in the TypeError of its call of
\* build_aggregate_table, with no aggregate table built.
C14_RunEndsInTypeError ==
    /\ caller = "run_part1" /\ ValidInputs
    /\ pc = "failed" /\ err.type = "TypeError"
    /\ stages = <<"config", "ingest", "enrich", "aggregate">>
    /\ "gl_agg" \notin tables

\* run_part1 on a valid workbook with investors ends in the ValueError of the
\* tuple unpacking of apply_mappings_inplace.
C14_RunEndsInUnpackError ==
    /\ caller = "run_part1" /\ ValidInputs
    /\ Len(workbook.investor_table) > 0
    /\ pc = "failed" /\ err.what = "too many values to unpack"
    /\ stages = <<"config", "ingest", "enrich">>

\* The pieces of a --parts text that hold an identifier: they start at position
\* 1 or after a comma, run to the next comma or the end, and are not all blanks.
IdentifierStarts(text) ==
    {i \in 1..(Len(text) + 1) :
        /\ i = 1 \/ text[i - 1] = ","
        /\ \E j \in i..Len(text) :
              /\ text[j] \notin {",", " "}
              /\ \A k \in i..j : text[k] # ","}

\* An identifier as main reads it: no comma, no blank at either end, not empty.
IsIdentifier(p) ==
    /\ p # <<>>
    /\ \A k \in 1..Len(p) : p[k] # ","
    /\ p[1] # " " /\ p[Len(p)] # " "

\* C12: the entry point raises ValueError when the --parts text holds no
\* non-blank identifier and otherwise goes through its identifiers in order;
\* for the identifier it is at it enters run_part1 when it is '1', raises
\* NotImplementedError when it is '2', '3' or '4' and raises ValueError when it
\* is anything else.
C12_EntryPoint ==
    [][ /\ pc = "cli" =>
              IF IdentifierStarts(argv.parts) = {}
              THEN pc' = "failed" /\ err'.type = "ValueError"
              ELSE /\ pc' = "dispatch"
                   /\ Len(parts') = Cardinality(IdentifierStarts(argv.parts))
                   /\ \A i \in 1..Len(parts') : IsIdentifier(parts'[i])
        /\ (pc = "dispatch" /\ parts # <<>>) =>
              LET p == Head(parts)
              IN  IF p = <<"1">>
                  THEN pc' = "start" /\ err' = NoError /\ stages' = <<>>
                  ELSE /\ pc' = "failed"
                       /\ err'.type = IF p \in {<<"2">>, <<"3">>, <<"4">>}
                                      THEN "NotImplementedError" ELSE "ValueError"
                       /\ UNCHANGED <<folders, tables, gl_raw, gl_agg>> ]_vars

\* "--parts 9,1": the unknown identifier ended the command before part 1 was
\* entered for the identifier after it.
C12_Witness ==
    /\ argv.given
    /\ argv.parts = <<"9", ",", "1">>
    /\ pc = "failed" /\ err.type = "ValueError" /\ err.what = "Unknown part"
    /\ stages = <<>>
    /\ parts = <<<<"1">>>>

\* The stages of a part-1 run, in the order run_part1 calls them.
StageOrder == <<"config", "ingest", "enrich", "aggregate">>

IsPrefix(s, t) == Len(s) <= Len(t) /\ \A i \in 1..Len(s) : s[i] = t[i]

\* run_part1 has a statement left to execute.
Part1Running == pc \in {"start", "loaded", "folders", "ingested", "enriched"}

\* C13: in a part-1 run the stages entered so far are a prefix of configuration
\* load, ingestion, enrichment, aggregation; a stage is entered only as the
\* next one of that order and only when every stage before it has completed
\* without an error; and a run that has no statement left to execute has either
\* run all four stages or has failed.
C13_StagesRunForward ==
    [][ /\ IsPrefix(stages', StageOrder)
        /\ (stages # <<>> /\ ~ Part1Running) =>
              \/ pc = "failed" /\ err # NoError
              \/ pc = "aggregated" /\ err = NoError /\ stages = StageOrder
        /\ stages' # stages =>
              \/ /\ Len(stages) < Len(StageOrder)
                 /\ stages' = Append(stages, StageOrder[Len(stages) + 1])
                 /\ pc # "failed" /\ err = NoError
                 /\ err' # NoError <=> pc' = "failed"
              \/ /\ pc = "dispatch" /\ pc' = "start" /\ stages' = <<>> ]_vars

\* A run that entered configuration load, ingestion and enrichment and was cut
\* short by the failure of enrichment.
C13_Witness ==
    /\ stages = <<"config", "ingest", "enrich">>
    /\ pc = "failed" /\ err # NoError
    /\ ~ Part1Running

----------------------------------------------------------------------------
(* The properties of ingest_gl_csv_to_raw.                                 *)

Ingested == pc = "ingested"

\* The eight enrichment fields of a record are null.
EnrichmentNull(r) ==
    /\ r.investor = NULL /\ r.owner = NULL /\ r.acquired = <<>> /\ r.investor_type = NULL
    /\ r.categorization = NULL /\ r.gl_mapping_type = NULL
    /\ r.cash_categorization = NULL /\ r.cash_type_mapping = NULL

\* The data rows of the export that read as the record r: the same account and
\* property name, the month r starts (no month for a label that names none),
\* the amounts of the row with an unreadable amount as 0.
LinesLike(r) ==
    {i \in 1..Len(export.lines) :
        LET line == export.lines[i]
        IN  /\ line.GL_Account = r.gl_account
            /\ line.Property_Name = r.property_name
            /\ IF r.month_start = NoMonth
               THEN line.Month[1] \notin {MonthAbbr(m) : m \in 1..12}
               ELSE line.Month = <<MonthAbbr(r.month_start[2]), r.month_start[1]>>
            /\ r.debit = (IF line.Debit = <<>> THEN 0 ELSE line.Debit[1])
            /\ r.credit = (IF line.Credit = <<>> THEN 0 ELSE line.Credit[1])}

\* C15: after a successful ingest_gl_csv_to_raw gl_raw holds as many records as
\* the export has data rows, each record as many times as the export has data
\* rows that read as it (so no record of an earlier ingest is left), and the
\* eight enrichment fields of every record are null.
C15_RawStoreIsThisExport ==
    Ingested =>
        /\ BagCardinality(gl_raw) = Len(export.lines)
        /\ \A r \in BagToSet(gl_raw) :
              /\ CopiesIn(r, gl_raw) = Cardinality(LinesLike(r))
              /\ EnrichmentNull(r)

\* An ingest over a store that held the enriched
\* records of an earlier run: none of the earlier records is left.
C15_Witness ==
    /\ Ingested
    /\ before.gl_raw # EmptyBag
    /\ \A r \in BagToSet(before.gl_raw) : ~ EnrichmentNull(r) /\ ~ BagIn(r, gl_raw)
    /\ Len(export.lines) >= 1
    /\ BagCardinality(gl_raw) = Len(export.lines)

----------------------------------------------------------------------------
(* The properties of build_monthly_cash_totals.                            *)

\* The (cash categorization, cash type) groups of the rows the returned cash
\* totals were computed from.
CashGroups ==
    {<<a.cash_categorization, a.cash_type_mapping>> : a \in {x \in BagToSet(gl_agg) : ReadBy(x)}}

\* The net value of a group as the cash statement shows it: credits less debits,
\* that is the stored cash values of its rows summed and sign-inverted.
NetValue(g) ==
    LET InG(a) == ReadBy(a) /\ a.cash_categorization = g[1] /\ a.cash_type_mapping = g[2]
        Stored(a) == a.cash_value
    IN  0 - BagSum(Stored, BagFilter(InG, gl_agg))

\* What a group adds to the returned totals: each returned figure less the
\* figure the function returns over the store without the rows of the group.
Contribution(g) ==
    LET NotInG(a) == ~ (a.cash_categorization = g[1] /\ a.cash_type_mapping = g[2])
        rest == build_monthly_cash_totals(BagFilter(NotInG, gl_agg), out.ctx, out.property_name)
    IN  [k \in DOMAIN out.result.value |-> out.result.value[k] - rest[k]]

\* A contribution of inflow to Total Inflow and of outflow to Total Outflow, their
\* sum to the category cat (when the dict has it), to Monthly and to Cumulative,
\* and nothing to any other figure.
CashDelta(cat, inflow, outflow) ==
    [k \in cash_cats \cup {"Total Inflow", "Total Outflow", "Monthly", "Cumulative"} |->
        IF k = "Total Inflow" THEN inflow
        ELSE IF k = "Total Outflow" THEN outflow
        ELSE IF k \in {cat, "Monthly", "Cumulative"} THEN inflow + outflow
        ELSE 0]

IsPrincipalBoth(g) == g[1] = "Mortgage Principal" /\ g[2] \in {"Both", "both", "BOTH"}

\* C16: in the returned cash totals a ('Mortgage Principal', 'Both') group with
\* a positive net value adds that value to 'Mortgage Loan' and to Total Inflow,
\* with a negative net value adds it (negative) to 'Mortgage Principal' and to
\* Total Outflow, and with a zero net value adds nothing to any figure.
C16_PrincipalBothRerouted ==
    Returned("build_monthly_cash_totals") =>
        \A g \in CashGroups :
            IsPrincipalBoth(g) =>
                Contribution(g) =
                    IF NetValue(g) > 0 THEN CashDelta("Mortgage Loan", NetValue(g), 0)
                    ELSE IF NetValue(g) < 0 THEN CashDelta("Mortgage Principal", 0, NetValue(g))
                    ELSE CashDelta("", 0, 0)

\* Cash totals over a mortgage-tagged record (debit 300.00, credit 100.00) and a
\* 'Mortgage Principal' / 'Both' record of net value +200.00: 'Mortgage Loan' is
\* the loan leg's 100.00 plus the re-routed 200.00.
C16_Witness ==
    /\ Returned("build_monthly_cash_totals")
    /\ out.property_name = NULL
    /\ \E g \in CashGroups : IsPrincipalBoth(g) /\ NetValue(g) = 20000
    /\ out.result.value["Mortgage Loan"] = 30000
    /\ out.result.value["Mortgage Principal"] = 0
    /\ out.result.value["Total Inflow"] = 30000
    /\ out.result.value["Total Outflow"] = 0 - 30000

\* C17: every other group is counted by its cash-type label alone: 'Inflow'
\* adds the magnitude of its summed cash value to its category and to Total
\* Inflow, 'Outflow' subtracts the magnitude from its category and from Total
\* Outflow, any other or missing label adds nothing to any figure; and Monthly
\* is Total Inflow plus Total Outflow.
C17_OtherGroupsByLabel ==
    Returned("build_monthly_cash_totals") =>
        /\ out.result.value["Monthly"] =
              out.result.value["Total Inflow"] + out.result.value["Total Outflow"]
        /\ \A g \in CashGroups :
              ~ IsPrincipalBoth(g) =>
                  Contribution(g) =
                      IF g[2] \in {"Inflow", "inflow", "INFLOW"}
                      THEN CashDelta(COALESCE(g[1], ""), Abs(NetValue(g)), 0)
                      ELSE IF g[2] \in {"Outflow", "outflow", "OUTFLOW"}
                      THEN CashDelta(COALESCE(g[1], ""), 0, 0 - Abs(NetValue(g)))
                      ELSE CashDelta("", 0, 0)

\* Cash totals over a rent record whose debit exceeds its credit (an 'Inflow'
\* group of net value -200.00, counted as +200.00) and an 'Owner Distribution'
\* record labelled 'Both', which counts for nothing.
C17_Witness ==
    /\ Returned("build_monthly_cash_totals")
    /\ out.property_name = NULL
    /\ \E g \in CashGroups : g = <<"Rent & Dividend", "Inflow">> /\ NetValue(g) = 0 - 20000
    /\ \E g \in CashGroups : g = <<"Owner Distribution", "Both">> /\ NetValue(g) # 0
    /\ out.result.value["Rent & Dividend"] = 20000
    /\ out.result.value["Owner Distribution"] = 0
    /\ out.result.value["Total Inflow"] = 20000
    /\ out.result.value["Monthly"] = 20000

----------------------------------------------------------------------------
(* The properties of part 2's run rows and of the run configuration.        *)

\* The percentages the Investor Table lists for an (investor, owner) pair, letter
\* case apart, one per property.
PairShares(investor, owner) ==
    {parse_pct_100_format(workbook.investor_table[i]["% Ownership"]) :
        i \in {j \in 1..Len(workbook.investor_table) :
                  /\ Lower(workbook.investor_table[j]["Investor"]) = Lower(investor)
                  /\ Lower(workbook.investor_table[j]["Owner"]) = Lower(owner)}}

\* 100 when every percentage of the pair is at least 100, else the least of them.
ReportPct(investor, owner) ==
    LET shares == PairShares(investor, owner)
    IN  IF \A x \in shares : x >= Pct100 THEN Pct100
        ELSE CHOOSE x \in shares : \A y \in shares : x <= y

\* out holds the context of a run row: the one main built, or the one a figure
\* was computed under.
HasContext ==
    \/ out.fn = "run_context" /\ out.result.ok
    \/ out.fn \in QueryFunctions \cup {"apply_ownership_amount"}

ContextOf == IF out.fn = "run_context" THEN out.result.ctx ELSE out.ctx

C18_StrangerFails ==
    /\ out.fn = "run_context" /\ ~ out.result.ok
    /\ out.run.investor = "Cy"

\* The rows of the Run Config sheet that name an investor and an owner.
NamedRunRows ==
    {i \in 1..Len(workbook.run_config) :
        workbook.run_config[i]["Investor"] # "" /\ workbook.run_config[i]["Owner"] # ""}

\* Rows i and j of the sheet name the same pair: as written, or letter case apart.
SamePairAsWritten(i, j) ==
    /\ workbook.run_config[i]["Investor"] = workbook.run_config[j]["Investor"]
    /\ workbook.run_config[i]["Owner"] = workbook.run_config[j]["Owner"]
SamePairAnyCase(i, j) ==
    /\ Lower(workbook.run_config[i]["Investor"]) = Lower(workbook.run_config[j]["Investor"])
    /\ Lower(workbook.run_config[i]["Owner"]) = Lower(workbook.run_config[j]["Owner"])

\* The rows that repeat the pair of an earlier row.
RepeatsAsWritten == {i \in NamedRunRows : \E j \in NamedRunRows : j < i /\ SamePairAsWritten(i, j)}
RepeatsAnyCase == {i \in NamedRunRows : \E j \in NamedRunRows : j < i /\ SamePairAnyCase(i, j)}

\* run_part1 holds a loaded SetupConfig.
SetupLoaded == stages # <<>> /\ ~ (pc = "failed" /\ stages = <<"config">>)

\* What part 2's load_run_config_rows returned: the first row of each pair, in
\* the order of the sheet, and one printed line for each row left out.
Part2DropsDuplicates ==
    (out.fn = "load_run_config_rows" /\ out.result.ok) =>
        LET first == Ascending(NamedRunRows \ RepeatsAnyCase)
            rows == out.result.rows
        IN  /\ Len(rows) = Len(first)
            /\ \A k \in 1..Len(rows) :
                  /\ rows[k].investor = workbook.run_config[first[k]]["Investor"]
                  /\ rows[k].owner = workbook.run_config[first[k]]["Owner"]
            /\ \A k, l \in 1..Len(rows) :
                  (Lower(rows[k].investor) = Lower(rows[l].investor)
                     /\ Lower(rows[k].owner) = Lower(rows[l].owner)) => k = l
            /\ out.result.printed = Ascending(RepeatsAnyCase)

\* The rows part 1's _read_run_config kept: no pair twice, each a first row of
\* its pair, in the order of the sheet.
Part1KeepsFirstRows ==
    SetupLoaded =>
        LET rows == setup.run_config
        IN  /\ \A k, l \in 1..Len(rows) :
                  (rows[k].Investor = rows[l].Investor /\ rows[k].Owner = rows[l].Owner)
                      => k = l
            /\ \E at \in [1..Len(rows) -> NamedRunRows \ RepeatsAsWritten] :
                  /\ \A k \in 1..Len(rows) :
                        /\ rows[k].Investor = workbook.run_config[at[k]]["Investor"]
                        /\ rows[k].Owner = workbook.run_config[at[k]]["Owner"]
                        /\ rows[k].pct_ownership
                              = normalize_pct(workbook.run_config[at[k]]["% Ownership"])
                  /\ \A k \in 1..(Len(rows) - 1) : at[k] < at[k + 1]

\* One diagnostic was printed by _read_run_config for each row it dropped as a
\* duplicate.
Part1PrintsEachDrop ==
    SetupLoaded =>
        Len(read_run_config(workbook.run_config).printed) = Cardinality(RepeatsAsWritten)

\* C19: each loader of the run configuration returns a list in which no pair
\* occurs twice, keeps the first row of a repeated pair and the order of the
\* sheet, and emits one diagnostic for each row it drops.
C19_DuplicatesDroppedWithDiagnostic ==
    Part2DropsDuplicates /\ Part1KeepsFirstRows /\ Part1PrintsEachDrop

\* load_setup_config has loaded a Run Config sheet with two repeated rows: the
\* frame holds three rows and nothing was printed.
C19_Part1DropsSilently ==
    /\ SetupLoaded
    /\ Cardinality(RepeatsAsWritten) = 2
    /\ Len(setup.run_config) = 3
    /\ read_run_config(workbook.run_config).printed = <<>>

\* Part 2's loader on the same sheet: three run rows, two lines printed.
C19_Part2PrintsDrops ==
    /\ out.fn = "load_run_config_rows" /\ out.result.ok
    /\ Len(out.result.rows) = 3
    /\ out.result.printed = <<2, 5>>

\* The owners whose Run Config rows (the first row of each pair) do not total
\* exactly 100.
UnbalancedOwners ==
    LET first == NamedRunRows \ RepeatsAsWritten
        total(o) == SumOver({i \in first : workbook.run_config[i]["Owner"] = o},
                            [i \in first |-> normalize_pct(workbook.run_config[i]["% Ownership"])])
    IN  {o \in {workbook.run_config[i]["Owner"] : i \in first} : total(o) # Pct100}

\* Part 1 leaves the rows and the investors of an unbalanced owner out of what
\* it loads.
Part1ExcludesUnbalancedOwners ==
    SetupLoaded =>
        /\ \A k \in 1..Len(setup.run_config) : setup.run_config[k].Owner \notin UnbalancedOwners
        /\ setup.investors =
              {workbook.run_config[i]["Investor"] :
                  i \in {j \in NamedRunRows : workbook.run_config[j]["Owner"] \notin UnbalancedOwners}}

\* C20: an owner whose Run Config rows do not total exactly 100 raises no error
\* in the configuration load, has no row in the run list that is loaded (part
\* 1's and part 2's), and no report is run for it.
C20_UnbalancedOwnerExcluded ==
    /\ (pc = "failed" /\ stages = <<"config">> /\ err.what = "Run Config no valid rows")
          => UnbalancedOwners = {}
    /\ Part1ExcludesUnbalancedOwners
    /\ (out.fn = "load_run_config_rows" /\ out.result.ok) =>
          \A k \in 1..Len(out.result.rows) : out.result.rows[k].owner \notin UnbalancedOwners
    /\ out.fn = "run_context" => out.run.owner \notin UnbalancedOwners

\* Part 2 builds the report context of Bob and Oak LLC although Oak LLC's Run
\* Config rows total 90.
C20_ReportRunForUnbalancedOwner ==
    /\ out.fn = "run_context" /\ out.result.ok
    /\ out.run.investor = "Bob" /\ out.run.owner = "Oak LLC"
    /\ UnbalancedOwners = {"Oak LLC"}
    /\ SetupLoaded
    /\ \A k \in 1..Len(setup.run_config) : setup.run_config[k].Owner # "Oak LLC"

\* The only owner of the Run Config is unbalanced: load_setup_config raises.
C20_LoadFailsWhenNoOwnerIsLeft ==
    /\ pc = "failed" /\ stages = <<"config">>
    /\ err.what = "Run Config no valid rows"
    /\ UnbalancedOwners = {"Oak LLC"}


----------------------------------------------------------------------------
(* The month named under a timeframe token.                                *)

\* The greatest month among rows, NoMonth when none of them has a month.
MaxMonth(rows) ==
    LET ms == {r.month_start : r \in rows} \ {NoMonth}
    IN  IF ms = {} THEN NoMonth
        ELSE CHOOSE m \in ms : \A n \in ms : MonthIndex(n) <= MonthIndex(m)

\* The aggregate rows of the investor that carry the token.
RowsCarrying(tf, investor) ==
    {r \in BagToSet(gl_agg) : SqlEq(r.investor, investor) /\ r.timeframe = tf}

\* The aggregate rows whose values _update_monthly_perf_table sums into the table
\* row of the token.
RowsSummedInto(tf, ctx) ==
    {r \in BagToSet(gl_agg) : perf_table_where(ctx, r) /\ r.timeframe = tf}

\* build_month_year_labels names, under each token it returns, the greatest month
\* of the rows it reads for that token (the investor's rows under its owner and
\* property filters), and returns every token that has such a month.
LabelsAreMaxMonth ==
    Returned("build_month_year_labels") =>
        \A tf \in TIMEFRAMES :
            LET read == {r \in RowsCarrying(tf, out.ctx.investor) :
                            owner_filter(out.ctx, r) /\ property_filter(out.property_name, r)}
            IN  IF MaxMonth(read) = NoMonth
                THEN tf \notin DOMAIN out.result.value
                ELSE /\ tf \in DOMAIN out.result.value
                     /\ out.result.value[tf] = <<MonthAbbr(MaxMonth(read)[2]), MaxMonth(read)[1]>>

\* The cover title names the statement month under [T1], the month of the rows
\* that carry [T1].
CoverTitleIsCutoffMonth ==
    Returned("apply_object_updates") =>
        /\ out.result.cover_title["[T1]"]
              = <<MonthAbbr(workbook.general.statement_thru_date[2]),
                  workbook.general.statement_thru_date[1]>>
        /\ \A r \in RowsCarrying("[T1]", out.ctx.investor) :
              r.month_start # NoMonth =>
                  out.result.cover_title["[T1]"]
                     = <<MonthAbbr(r.month_start[2]), r.month_start[1]>>

\* Each row of the monthly performance table names the greatest month of the
\* investor's rows carrying its token, which is the month of the rows summed
\* into it.
TableRowsNameTheirMonth ==
    Returned("apply_object_updates") =>
        \A k \in DOMAIN out.result.monthly_perf_table :
            LET row == out.result.monthly_perf_table[k]
                m == MaxMonth(RowsCarrying(row.token, out.ctx.investor))
            IN  /\ m # NoMonth => row.label = <<MonthAbbr(m[2]), m[1]>>
                /\ \A r \in RowsSummedInto(row.token, out.ctx) :
                      (r.month_start # NoMonth /\ row.token # "[T13]") =>
                          row.label = <<MonthAbbr(r.month_start[2]), r.month_start[1]>>

\* C21: every consumer that replaces a [Tn] token by a month label names the
\* greatest month among the investor's aggregate rows carrying the token, so a
\* [Tn] table row names the month of the rows summed into it, the cutoff month
\* under [T1].
C21_TokenLabelIsMonthOfItsRows ==
    /\ LabelsAreMaxMonth
    /\ CoverTitleIsCutoffMonth
    /\ TableRowsNameTheirMonth

\* The [T1] row of the performance table shows the rent of the cutoff month,
\* June 2024, and names June 2023.
C21_TableRowNamesAnotherMonth ==
    /\ Returned("apply_object_updates")
    /\ workbook.general.statement_thru_date = June
    /\ \E k \in DOMAIN out.result.monthly_perf_table :
          LET row == out.result.monthly_perf_table[k]
          IN  /\ row.token = "[T1]"
              /\ row.label = <<"Jun", 2023>>
              /\ row.Rent # 0
              /\ \A r \in RowsSummedInto("[T1]", out.ctx) : r.month_start = <<2024, 6>>

----------------------------------------------------------------------------
(* The figures of build_monthly_perf_totals.                               *)

\* The five categories the performance statement shows.
Whitelisted ==
    {"Rent", "Dividend", "HOA & Mgt. Fee", "Repairs & Other Exp.", "Mortgage Interest"}

\* C22: in every result of build_monthly_perf_totals Total Revenue = Rent +
\* Dividend, Total Expenses = HOA & Mgt. Fee + Repairs & Other Exp. + Mortgage
\* Interest, Monthly = Total Revenue + Total Expenses and Cumulative = Monthly;
\* the result is the one returned over the store without the rows whose
\* categorization is not one of the five.
C22_PerfTotalsAddUp ==
    Returned("build_monthly_perf_totals") =>
        LET v == out.result.value
            Shown(a) == a.categorization \in Whitelisted
        IN  /\ v["Total Revenue"] = v["Rent"] + v["Dividend"]
            /\ v["Total Expenses"] = v["HOA & Mgt. Fee"] + v["Repairs & Other Exp."]
                                        + v["Mortgage Interest"]
            /\ v["Monthly"] = v["Total Revenue"] + v["Total Expenses"]
            /\ v["Cumulative"] = v["Monthly"]
            /\ v = build_monthly_perf_totals(BagFilter(Shown, gl_agg), out.ctx,
                                             out.property_name)

\* A dividend of 500.00 is the whole of Total Revenue, Monthly and Cumulative
\* while the store also holds an owner distribution that the query reads past.
C22_Witness ==
    /\ Returned("build_monthly_perf_totals")
    /\ out.result.value["Rent"] = 0
    /\ out.result.value["Dividend"] = 50000
    /\ out.result.value["Total Revenue"] = 50000
    /\ out.result.value["Monthly"] = 50000
    /\ out.result.value["Cumulative"] = 50000
    /\ \E a \in BagToSet(gl_agg) :
          /\ ReadBy(a)
          /\ a.categorization = "Owner Distribution"
          /\ a.value # 0

----------------------------------------------------------------------------
(* The normalisation of percent-ownership cells.                           *)

\* A cell's value read as the rule reads it: a fraction in (0, 1] times 100,
\* any other value as it stands.
AsPercentage(cell) == IF cell.v > 0 /\ cell.v <= PctOne THEN cell.v * 100 ELSE cell.v

\* Within (0, 100].
InPercentRange(p) == p > 0 /\ p <= Pct100

PctCells(sheet) == {sheet[i]["% Ownership"] : i \in 1..Len(sheet)}

\* Part 1's loaders of the Run Config and the Investor Table follow the rule.
Part1NormalizesPct ==
    stages # <<>> =>
        /\ (\E c \in PctCells(workbook.run_config) \cup PctCells(workbook.investor_table) :
               ~ InPercentRange(AsPercentage(c)))
              => (setup = NoSetup /\ pc = "failed" /\ err.type = "ValueError")
        /\ setup # NoSetup =>
              /\ \A i \in 1..Len(workbook.investor_table) :
                    setup.investor_table.rows[i]["pct_ownership"]
                       = AsPercentage(workbook.investor_table[i]["% Ownership"])
              /\ \A k \in 1..Len(setup.run_config) :
                    \E i \in 1..Len(workbook.run_config) :
                       /\ workbook.run_config[i]["Investor"] = setup.run_config[k].Investor
                       /\ workbook.run_config[i]["Owner"] = setup.run_config[k].Owner
                       /\ setup.run_config[k].pct_ownership
                             = AsPercentage(workbook.run_config[i]["% Ownership"])

\* Part 2's loader of the Investor Table follows the rule.
Part2NormalizesPct ==
    out.fn = "load_investor_table_ownership_map" =>
        LET sheet == workbook.investor_table
            key(i) == <<Lower(sheet[i]["Investor"]), Lower(sheet[i]["Owner"])>>
        IN  /\ (\E c \in PctCells(sheet) : ~ InPercentRange(AsPercentage(c)))
                  => ~ out.result.ok
            /\ out.result.ok =>
                  \A i \in 1..Len(sheet) :
                      {out.result.map[key(i)][k] : k \in 1..Len(out.result.map[key(i)])}
                         = {AsPercentage(sheet[j]["% Ownership"]) :
                               j \in {n \in 1..Len(sheet) : key(n) = key(i)}}

\* C23: every loader of percent-ownership values reads a value in (0, 1] as a
\* fraction and multiplies it by 100, reads any other value as a percentage, and
\* fails when a value so read lies outside (0, 100], for numeric and for text
\* cells alike.
C23_PctNormalizedByEveryLoader == Part1NormalizesPct /\ Part2NormalizesPct

\* Part 2's loader has accepted the text "0.5" beside 99.5 and returned it as
\* 0.5 percent.
C23_Part2KeepsTextFraction ==
    /\ out.fn = "load_investor_table_ownership_map"
    /\ out.result.ok
    /\ workbook.investor_table[2]["% Ownership"] = [kind |-> "str", v |-> 100]
    /\ out.result.map[<<"bob", "oak llc">>] = <<100>>

\* Part 2's loader has rejected the text fractions "0.6" and "0.4", whose group
\* it sums to 1.0.
C23_Part2RejectsTextFractions ==
    /\ out.fn = "load_investor_table_ownership_map"
    /\ ~ out.result.ok
    /\ out.result.err.what = "Investor Table ownership sums"
    /\ \A c \in PctCells(workbook.investor_table) :
          c.kind = "str" /\ InPercentRange(AsPercentage(c))
    /\ workbook.investor_table[1]["% Ownership"].v = 120

----------------------------------------------------------------------------
(* Conservation of the ledger total.                                       *)

\* C24: after build_aggregate_table the sum of value over the aggregate rows is
\* the sum of debit - credit over the raw ledger records.
C24_AggregationConservesTotal ==
    Aggregated =>
        BagSum(Value, gl_agg) = BagSum(Debit, gl_raw) - BagSum(Credit, gl_raw)

\* A ledger of a mortgage-tagged record (debit 300.00, credit 100.00) and a rent
\* record of the same amounts: the payment leg 300.00 and the loan leg -100.00
\* and the rent row 200.00 add up to 400.00.
C24_Witness ==
    /\ Aggregated
    /\ \E r, q \in BagToSet(gl_raw) :
          /\ IsMortgage(r) /\ r.debit = 30000 /\ r.credit = 10000
          /\ IsNotMortgage(q) /\ q.debit = 30000 /\ q.credit = 10000
    /\ BagCardinality(gl_raw) = 2
    /\ BagCardinality(gl_agg) = 3
    /\ BagSum(Value, gl_agg) = 40000

----------------------------------------------------------------------------
(* The timeframe of the committed aggregate rows.                          *)

TimeframeLabels == {"N/A"} \cup {"[T" \o ToString(n) \o "]" : n \in 1..13}

\* C25: in every committed state of the aggregate store every row's timeframe is
\* 'N/A' or one of '[T1]' .. '[T13]', never NULL, also after a build that failed.
C25_CommittedRowsHaveTimeframe ==
    \A a \in BagToSet(gl_agg) : a.timeframe # NULL /\ a.timeframe \in TimeframeLabels

\* The build failed on a statement thru date that is no date, after gl_raw was
\* filled: the aggregate table exists and holds no row.
C25_Witness ==
    /\ pc = "failed"
    /\ stages = <<"config", "ingest", "enrich", "aggregate">>
    /\ err.what = "statement thru date does not parse"
    /\ gl_raw # EmptyBag
    /\ "gl_agg" \in tables
    /\ gl_agg = EmptyBag

----------------------------------------------------------------------------
(* Aggregate rows without a month.                                         *)

\* The aggregate rows without a month that belong to the investor, the owner and
\* (when one is given) the property of the query in out.
UndatedOf(a) ==
    /\ a.month_start = NoMonth
    /\ a.investor = out.ctx.investor
    /\ a.owner = out.ctx.owner
    /\ out.property_name # NULL => a.property = out.property_name

\* The rows the query reads that have a month.
DatedReadBy(a) == ReadBy(a) /\ a.month_start # NoMonth

\* C26: an aggregate row whose month is NULL is labelled '[T13]', not 'N/A', and
\* its value is part of the totals build_monthly_perf_totals returns.
C26_UndatedRowsCountUnderT13 ==
    /\ \A a \in BagToSet(gl_agg) : a.month_start = NoMonth => a.timeframe = "[T13]"
    /\ Returned("build_monthly_perf_totals") =>
          \A cat \in Whitelisted :
              LET Dated(a) == DatedReadBy(a) /\ a.categorization = cat
                  Undated(a) == UndatedOf(a) /\ a.categorization = cat
              IN  out.result.value[cat]
                     = BagSum(DisplayedValue, BagFilter(Dated, gl_agg))
                       + BagSum(DisplayedValue, BagFilter(Undated, gl_agg))

\* The ledger's one record has a month label that does not parse: its rent row
\* (value 200.00) is labelled [T13] and is returned as Rent -200.00.
C26_Witness ==
    /\ Returned("build_monthly_perf_totals")
    /\ BagCardinality(gl_agg) = 1
    /\ \E a \in BagToSet(gl_agg) :
          /\ a.month_start = NoMonth
          /\ a.timeframe = "[T13]"
          /\ a.categorization = "Rent"
          /\ a.value = 20000
          /\ UndatedOf(a)
    /\ out.result.value["Rent"] = 0 - 20000
    /\ out.result.value["Monthly"] = 0 - 20000

----------------------------------------------------------------------------
(* A failed ingestion.                                                     *)

\* ingest_gl_csv_to_raw has raised.
IngestFailed == pc = "failed" /\ stages = <<"config", "ingest">>

\* C27: when ingest_gl_csv_to_raw fails because the export does not exist or lacks
\* a required column, the raw ledger store is as it was before the call.
C27_FailedIngestLeavesRawStore ==
    IngestFailed =>
        /\ err.what \in {"GL CSV not found", "GL CSV missing required columns"}
        /\ gl_raw = before.gl_raw
        /\ tables = before.tables

\* The export lacks a required column and the store holds the records of an
\* earlier run: they are still there after the failure.
C27_Witness ==
    /\ IngestFailed
    /\ err.what = "GL CSV missing required columns"
    /\ export.exists
    /\ before.gl_raw # EmptyBag
    /\ gl_raw = before.gl_raw

\* The same with an export that does not exist.
C27_MissingFileLeavesRawStore ==
    /\ IngestFailed
    /\ err.type = "FileNotFoundError"
    /\ before.gl_raw # EmptyBag
    /\ gl_raw = before.gl_raw

----------------------------------------------------------------------------
(* The order in which the entry point takes its identifiers.               *)

\* The piece of a --parts text that starts at position i and ends before the
\* next comma.
PieceAt(text, i) ==
    LET commas == {j \in i..Len(text) : text[j] = ","}
        end == IF commas = {} THEN Len(text) + 1
               ELSE CHOOSE j \in commas : \A n \in commas : j <= n
    IN  SubSeq(text, i, end - 1)

\* The characters of a piece other than blanks.
NonBlanks(piece) ==
    LET Inked(c) == c # " "
    IN  SelectSeq(piece, Inked)

\* The identifier at position j of the list asks for part 1.
AsksForPartOne(j) ==
    NonBlanks(PieceAt(argv.parts, Ascending(IdentifierStarts(argv.parts))[j])) = <<"1">>

\* How many identifiers of the list main has taken up so far.
TakenUp == Cardinality(IdentifierStarts(argv.parts)) - Len(parts)

\* The entry point has raised for an identifier it does not run.
RaisedForIdentifier ==
    /\ argv.given
    /\ pc = "failed"
    /\ err.what \in {"Unknown part", "Part not implemented yet."}

\* C28: the entry point takes the identifiers strictly left to right and does not
\* validate the list first: when it raises for an unknown or unimplemented
\* identifier at position k, every identifier before k asked for part 1 and that
\* part has run to completion, and nothing listed after k has run; a part is
\* entered whatever the identifiers after it are.
C28_LeftToRight ==
    /\ RaisedForIdentifier =>
          /\ TakenUp >= 1
          /\ ~ AsksForPartOne(TakenUp)
          /\ \A j \in 1..(TakenUp - 1) : AsksForPartOne(j)
          /\ stages = IF TakenUp = 1 THEN <<>> ELSE StageOrder
    /\ (argv.given /\ stages # <<>>) =>
          /\ TakenUp >= 1
          /\ \A j \in 1..TakenUp : AsksForPartOne(j)

\* "--parts 2,1": the unimplemented identifier at position 1 raised, and part 1,
\* listed after it, has not been entered.
C28_Witness ==
    /\ RaisedForIdentifier
    /\ argv.parts = <<"2", ",", "1">>
    /\ err.type = "NotImplementedError"
    /\ TakenUp = 1
    /\ parts = <<<<"1">>>>
    /\ stages = <<>>
    /\ folders = {}

\* "--parts 1,9": part 1 has been entered although the list ends in an unknown
\* identifier.
C28_PartOneEnteredBeforeUnknown ==
    /\ argv.given
    /\ argv.parts = <<"1", ",", "9">>
    /\ stages # <<>>
    /\ parts = <<<<"9">>>>


----------------------------------------------------------------------------
(* The performance totals of an owner and of the owner's properties.       *)

\* The aggregate rows of the investor and owner of the query in out.
RowsOfPair == {a \in BagToSet(gl_agg) : a.investor = out.ctx.investor /\ a.owner = out.ctx.owner}

\* The property codes of these rows.
PropertyCodes == {a.property : a \in RowsOfPair}

PerfKeys == Whitelisted \cup {"Total Revenue", "Total Expenses", "Monthly", "Cumulative"}

\* C29: when every aggregate row of the investor and owner carries a non-blank
\* property code, each figure build_monthly_perf_totals returns without a
\* property filter is the sum over the owner's property codes of the figure it
\* returns for that property.
C29_PerfTotalsAddOverProperties ==
    ( /\ Returned("build_monthly_perf_totals")
      /\ out.property_name = NULL
      /\ \A a \in RowsOfPair : a.property # NULL /\ a.property # "" ) =>
        \A k \in PerfKeys :
            out.result.value[k]
               = SumOver(PropertyCodes,
                         [P \in PropertyCodes |->
                             build_monthly_perf_totals(gl_agg, out.ctx, P)[k]])

\* Rent of 500.00 on Maple and a dividend of 500.00 on Cedar: the owner's Total
\* Revenue is 1000.00, 500.00 from each property.
C29_Witness ==
    /\ Returned("build_monthly_perf_totals")
    /\ out.property_name = NULL
    /\ PropertyCodes = {"MAP", "CED"}
    /\ out.result.value["Total Revenue"] = 100000
    /\ build_monthly_perf_totals(gl_agg, out.ctx, "MAP")["Total Revenue"] = 50000
    /\ build_monthly_perf_totals(gl_agg, out.ctx, "MAP")["Rent"] = 50000
    /\ build_monthly_perf_totals(gl_agg, out.ctx, "CED")["Dividend"] = 50000

(* ---------------------------------------------------------------------- *)
(* C30                                                                      *)
(* ---------------------------------------------------------------------- *)

\* The '_pct' variant of each of the three titles.
PctVariant ==
    [overview_title |-> "overview_title_pct",
     perf_summary_title |-> "perf_summary_title_pct",
     cash_summary_title |-> "cash_summary_title_pct"]

\* The shapes of the saved deck show what the rules say for the run's
\* ownership percentage.
VisibilityFollowsOwnership(visible, ownership_pct) ==
    /\ \A nm \in normal_names \cap DOMAIN visible :
           visible[nm] <=> (ownership_pct >= Pct100)
    /\ \A nm \in pct_names \cap DOMAIN visible :
           visible[nm] <=> (ownership_pct < Pct100)
    /\ \A nm \in normal_names :
           (nm \in DOMAIN visible /\ PctVariant[nm] \in DOMAIN visible) =>
               (visible[nm] # visible[PctVariant[nm]])

\* Where no Visible assignment raises, the saved deck follows the rules.
VisibilityFollowsWhereNothingRaises ==
    (Returned("combine_presentations") /\ out.raising = {}) =>
        VisibilityFollowsOwnership(out.result.visible, out.ctx.ownership_pct)

\* C30: in every produced deck, for each of the overview, performance-summary
\* and cash-summary titles exactly one of the normal shape and its '_pct'
\* variant is visible: the '_pct' variants and pct_owner_note are visible
\* exactly when the run's ownership percentage is below 100, and the normal
\* titles exactly when it is 100 or more.
C30_ExactlyOneTitleVisible ==
    Returned("combine_presentations") =>
        VisibilityFollowsOwnership(out.result.visible, out.ctx.ownership_pct)

\* A deck of a full-ownership run is saved with a title and its '_pct' variant
\* both visible, as they are in the template, after the assignments raised.
C30_BothTitlesVisible ==
    /\ Returned("combine_presentations")
    /\ out.ctx.ownership_pct = Pct100
    /\ out.pres = DeckAllVisible
    /\ out.result.visible["overview_title"]
    /\ out.result.visible["overview_title_pct"]

\* A partial-ownership run whose deck follows the rules: the '_pct' variants
\* and the note shown, the normal titles hidden.
C30_PartialDeckShowsPct ==
    /\ Returned("combine_presentations")
    /\ out.ctx.ownership_pct < Pct100
    /\ out.pres = DeckAllVisible
    /\ out.raising = {}
    /\ \A nm \in pct_names : out.result.visible[nm]
    /\ \A nm \in normal_names : ~out.result.visible[nm]
    /\ out.result.visible["cover_title"]
====
